---- MODULE Spec2Model ----
(***************************************************************************)
(* Model of the job and connection reconcilers of the dbt Cloud Terraform  *)
(* provider: the Create / Read / Update / Delete handlers of               *)
(* pkg/resources/job.go and of the connection resource, the composite      *)
(* identity they store in the state record, and the remote calls they      *)
(* issue.  Every handler is cut at its remote calls: one action runs the   *)
(* handler's code up to and including one remote call.                     *)
(*                                                                         *)
(* Strings that the code splits, formats or parses are sequences of        *)
(* one-character strings; a Go pointer is a sequence of length 0 (nil) or  *)
(* 1 (the pointee).                                                        *)
(***************************************************************************)
EXTENDS Integers, Sequences, FiniteSets, TLC

VARIABLES
    res,          \* which resource type this state record belongs to
    phase,        \* life cycle of the state record in the hosting runtime
    pc,           \* position of the running handler ("idle": none running)
    op,           \* the handler that runs, or ran last
    recId,        \* d.Id(): the record's identity string
    attrs,        \* d.Get / d.Set: the record's attributes
    changed,      \* d.HasChange: attributes the runtime reports as changed
    ent,          \* the handler's local entity (fetched, then merged)
    remoteJob,    \* the job held by the remote API (pointer)
    remoteConn,   \* the connection held by the remote API (pointer)
    calls,        \* remote calls issued by the running / last handler
    result,       \* "running", "ok", "error" (diagnostic) or "panic"
    errmsg,       \* the error carried by the returned diagnostic
    idAtStart,    \* recId when the handler was invoked
    attrsAtStart, \* attrs when the handler was invoked (after the plan)
    drift         \* what another writer did to the remote entity so far

vars == <<res, phase, pc, op, recId, attrs, changed, ent, remoteJob,
          remoteConn, calls, result, errmsg, idAtStart, attrsAtStart, drift>>

(***************************************************************************)
(* Bounds of the model.                                                    *)
(***************************************************************************)
\* largest number of attributes one plan reports as changed
MaxChanged == 2
\* largest number of attributes changed in a run with another writer
MaxChangedDrift == 1
\* server-assigned and project IDs range over -MaxId .. MaxId in the
\* identity specification
MaxId == 11

(***************************************************************************)
(* Pointers and strings.                                                   *)
(***************************************************************************)
Nil == <<>>
Ptr(v) == <<v>>
IsNil(p) == p = <<>>
Deref(p) == p[1]

DigitChars == <<"0", "1", "2", "3", "4", "5", "6", "7", "8", "9">>

RECURSIVE NatToChars(_)
NatToChars(n) ==
    IF n < 10 THEN <<DigitChars[n + 1]>>
    ELSE Append(NatToChars(n \div 10), DigitChars[(n % 10) + 1])

\* fmt.Sprintf("%d", n) and strconv.Itoa(n)
Itoa(n) == IF n < 0 THEN <<"-">> \o NatToChars(-n) ELSE NatToChars(n)

RECURSIVE SplitRec(_, _, _, _)
SplitRec(s, sep, cur, acc) ==
    IF s = <<>> THEN Append(acc, cur)
    ELSE IF Head(s) = sep THEN SplitRec(Tail(s), sep, <<>>, Append(acc, cur))
    ELSE SplitRec(Tail(s), sep, Append(cur, Head(s)), acc)

\* strings.Split(s, sep) for a one-character separator: cuts at EVERY
\* occurrence of sep
Split(s, sep) == SplitRec(s, sep, <<>>, <<>>)

ID_DELIMITER == ":"

\* fmt.Sprintf("%d%s%d", projectID, dbt_cloud.ID_DELIMITER, id)
EncodeId(projectID, id) == Itoa(projectID) \o <<ID_DELIMITER>> \o Itoa(id)

STATE_ACTIVE == 1
STATE_DELETED == 2

\* strings.HasPrefix(err.Error(), p): an error text is a sequence of words
HasPrefix(msg, p) == Len(msg) >= 1 /\ msg[1] = p

ErrNotFound == <<"resource-not-found", "404">>
ErrRemote == <<"unexpected-status", "resource-not-found", "500">>


(***************************************************************************)
(* Planning: the hosting runtime hands Update the planned attributes and   *)
(* reports those that differ from the prior state as changed.              *)
(***************************************************************************)
\* the values of the domain (a sequence) other than cur
Alternatives(dom, cur) == {dom[i] : i \in 1..Len(dom)} \ {cur}

\* the sets of at most n of the names
RECURSIVE ChangedSets(_, _)
ChangedSets(names, n) ==
    IF n = 0 THEN {{}}
    ELSE LET smaller == ChangedSets(names, n - 1)
         IN  smaller \cup {T \cup {x} : T \in smaller, x \in names}

(***************************************************************************)
(* The connection resource.                                                *)
(***************************************************************************)
ConnAttrs ==
    {"connection_id", "is_active", "project_id", "name", "type", "account",
     "host_name", "port", "database", "warehouse", "role", "allow_sso",
     "allow_keep_alive", "oauth_client_id", "oauth_client_secret",
     "tunnel_enabled", "http_path", "catalog", "adapter_id"}

\* Computed attributes are never part of a configuration
ConnConfigAttrs == ConnAttrs \ {"connection_id", "adapter_id"}

ConnDom(k) ==
    CASE k = "is_active" -> <<TRUE, FALSE>>
      [] k = "project_id" -> <<42, 5>>
      [] k = "name" -> <<"conn_a", "conn_b">>
      [] k = "type" -> <<"snowflake", "redshift", "adapter">>
      [] k = "account" -> <<"acct_a", "acct_b">>
      [] k = "host_name" -> <<"", "host_a">>
      [] k = "port" -> <<0, 5439>>
      [] k = "database" -> <<"db_a", "db_b">>
      [] k = "warehouse" -> <<"wh_a", "wh_b">>
      [] k = "role" -> <<"", "role_a">>
      [] k = "allow_sso" -> <<FALSE, TRUE>>
      [] k = "allow_keep_alive" -> <<FALSE, TRUE>>
      [] k = "oauth_client_id" -> <<"", "client_a">>
      [] k = "oauth_client_secret" -> <<"", "secret_a">>
      [] k = "tunnel_enabled" -> <<FALSE, TRUE>>
      [] k = "http_path" -> <<"", "/sql/1">>
      [] k = "catalog" -> <<"", "cat_a">>

\* the zero values d.Get returns for a record that holds no attribute yet
ConnZeroAttrs ==
    [connection_id |-> 0, is_active |-> FALSE, project_id |-> 0, name |-> "",
     type |-> "", account |-> "", host_name |-> "", port |-> 0,
     database |-> "", warehouse |-> "", role |-> "", allow_sso |-> FALSE,
     allow_keep_alive |-> FALSE, oauth_client_id |-> "",
     oauth_client_secret |-> "", tunnel_enabled |-> FALSE, http_path |-> "",
     catalog |-> "", adapter_id |-> 0]

\* schema defaults of the connection resource
ConnDefaults ==
    [ConnZeroAttrs EXCEPT !.is_active = TRUE]

SnowflakeConfig ==
    [ConnDefaults EXCEPT !.project_id = 42, !.name = "conn_a",
                         !.type = "snowflake", !.account = "acct_a",
                         !.database = "db_a", !.warehouse = "wh_a"]

RedshiftConfig ==
    [ConnDefaults EXCEPT !.project_id = 42, !.name = "conn_a",
                         !.type = "redshift", !.host_name = "host_a",
                         !.port = 5439, !.database = "db_a"]

DatabricksConfig ==
    [ConnDefaults EXCEPT !.project_id = 42, !.name = "conn_a",
                         !.type = "adapter", !.host_name = "host_a",
                         !.database = "db_a", !.http_path = "/sql/1",
                         !.catalog = "cat_a"]

SnowflakeOAuthConfig ==
    [SnowflakeConfig EXCEPT !.allow_sso = TRUE,
                            !.oauth_client_id = "client_a",
                            !.oauth_client_secret = "secret_a"]

ConnConfigs ==
    {SnowflakeConfig, SnowflakeOAuthConfig, RedshiftConfig, DatabricksConfig}

\* the plans of an Update that reports exactly S as changed: a with every
\* attribute of S replaced by another value of its domain
RECURSIVE ConnPlans(_, _)
ConnPlans(a, S) ==
    IF S = {} THEN {a}
    ELSE LET k == CHOOSE x \in S : TRUE
         IN  UNION {{[p EXCEPT ![k] = v] : v \in Alternatives(ConnDom(k), a[k])} :
                    p \in ConnPlans(a, S \ {k})}

\* c.CreateConnection: the entity the remote API stores and returns
NewConnection(id, a) ==
    [ID |-> Ptr(id),
     ProjectID |-> a.project_id,
     Name |-> a.name,
     Type |-> a.type,
     State |-> IF a.is_active THEN STATE_ACTIVE ELSE STATE_DELETED,
     Account |-> a.account,
     Database |-> IF a.type = "snowflake" THEN a.database ELSE "",
     DBName |-> IF a.type = "snowflake" THEN "" ELSE a.database,
     Warehouse |-> a.warehouse,
     Role |-> a.role,
     AllowSSO |-> Ptr(a.allow_sso),
     ClientSessionKeepAlive |-> Ptr(a.allow_keep_alive),
     OAuthClientID |-> a.oauth_client_id,
     OAuthClientSecret |-> a.oauth_client_secret,
     Host |-> IF a.type = "adapter" THEN "" ELSE a.host_name,
     Port |-> a.port,
     TunnelEnabled |-> Ptr(a.tunnel_enabled),
     AdapterId |-> IF a.type = "adapter" THEN Ptr(id + 1000) ELSE Nil,
     AdapterDetails |->
        IF a.type = "adapter"
        THEN Ptr([http_path |-> a.http_path, catalog |-> a.catalog,
                  host |-> a.host_name])
        ELSE Nil]

\* a connection that was created out of band, before the record exists
SeedConn ==
    NewConnection(7, [SnowflakeOAuthConfig EXCEPT !.name = "conn_b",
                                                  !.role = "role_a"])

\* the remote entity a (connectionID, projectID) pair of strings addresses
ConnFound(cid, pid) ==
    /\ ~IsNil(remoteConn)
    /\ ~IsNil(Deref(remoteConn).ID)
    /\ Itoa(Deref(Deref(remoteConn).ID)) = cid
    /\ Itoa(Deref(remoteConn).ProjectID) = pid

\* c.GetConnection(connectionID, projectID)
GetConnection(cid, pid, fail) ==
    IF fail THEN [ent |-> Nil, err |-> Ptr(ErrRemote)]
    ELSE IF ConnFound(cid, pid) THEN [ent |-> remoteConn, err |-> Nil]
    ELSE [ent |-> Nil, err |-> Ptr(ErrNotFound)]

\* c.UpdateConnection(connectionID, projectID, connection): whole-entity
\* replace of the addressed entity
UpdateConnection(cid, pid, c, fail) ==
    IF fail THEN [remote |-> remoteConn, err |-> Ptr(ErrRemote)]
    ELSE IF ConnFound(cid, pid) THEN [remote |-> Ptr(c), err |-> Nil]
    ELSE [remote |-> remoteConn, err |-> Ptr(ErrNotFound)]

\* c.DeleteConnection(connectionID, projectID): physical removal
DeleteConnection(cid, pid, fail) ==
    IF fail THEN [remote |-> remoteConn, err |-> Ptr(ErrRemote)]
    ELSE IF ConnFound(cid, pid) THEN [remote |-> Nil, err |-> Nil]
    ELSE [remote |-> remoteConn, err |-> Ptr(ErrNotFound)]

\* one entry of the call log
Call(fn, id, scope, payload, r) ==
    [fn |-> fn, id |-> id, scope |-> scope, payload |-> payload,
     got |-> r.ent, err |-> r.err]

PtrOr(p, zero) == IF IsNil(p) THEN zero ELSE Deref(p)

\* resourceConnectionRead, the d.Set calls: the attributes after a
\* successful fetch of c, for a record that held a
ConnReadAttrs(a, c) ==
    LET ad == c.AdapterDetails IN
    [connection_id |-> PtrOr(c.ID, 0),
     is_active |-> (c.State = STATE_ACTIVE),
     project_id |-> c.ProjectID,
     name |-> c.Name,
     type |-> c.Type,
     account |-> c.Account,
     database |-> IF c.Type = "snowflake" THEN c.Database ELSE c.DBName,
     warehouse |-> c.Warehouse,
     role |-> c.Role,
     allow_sso |-> PtrOr(c.AllowSSO, FALSE),
     allow_keep_alive |-> PtrOr(c.ClientSessionKeepAlive, FALSE),
     oauth_client_id |-> a.oauth_client_id,
     oauth_client_secret |-> a.oauth_client_secret,
     port |-> c.Port,
     tunnel_enabled |-> PtrOr(c.TunnelEnabled, FALSE),
     host_name |-> IF IsNil(ad) THEN c.Host ELSE Deref(ad).host,
     http_path |-> IF IsNil(ad) THEN "" ELSE Deref(ad).http_path,
     catalog |-> IF IsNil(ad) THEN "" ELSE Deref(ad).catalog,
     adapter_id |-> PtrOr(c.AdapterId, 0)]

\* strings.Split(d.Id(), dbt_cloud.ID_DELIMITER): [0] and [1] are taken,
\* and indexing [1] panics when the identity holds no delimiter
IdParts(id) == Split(id, ID_DELIMITER)
IdPanics(id) == Len(IdParts(id)) < 2
ProjectIdString(id) == IdParts(id)[1]

\* variant: the entity ID read from the half before the delimiter
ConnectionIdString_first(id) == IdParts(id)[1]

ConnectionIdString(id) == IdParts(id)[2]

\* variant: the error of the fetch is not returned
ConnReadBody_errorDropped(id, a, fail) ==
    IF IdPanics(id)
    THEN [panic |-> TRUE, calls |-> <<>>, attrs |-> a, err |-> Nil, id |-> id]
    ELSE LET cid == ConnectionIdString(id)
             pid == ProjectIdString(id)
             r == GetConnection(cid, pid, fail)
             c == Call("GetConnection", cid, pid, Nil, r)
         IN  IF ~IsNil(r.err)
             THEN [panic |-> FALSE, calls |-> <<c>>, attrs |-> a,
                   err |-> Nil, id |-> id]
             ELSE [panic |-> FALSE, calls |-> <<c>>,
                   attrs |-> ConnReadAttrs(a, Deref(r.ent)),
                   err |-> Nil, id |-> id]

\* resourceConnectionRead as a whole: what it leaves behind
ConnReadBody(id, a, fail) ==
    IF IdPanics(id)
    THEN [panic |-> TRUE, calls |-> <<>>, attrs |-> a, err |-> Nil, id |-> id]
    ELSE LET cid == ConnectionIdString(id)
             pid == ProjectIdString(id)
             r == GetConnection(cid, pid, fail)
             c == Call("GetConnection", cid, pid, Nil, r)
         IN  IF ~IsNil(r.err)
             THEN [panic |-> FALSE, calls |-> <<c>>, attrs |-> a,
                   err |-> r.err, id |-> id]
             ELSE [panic |-> FALSE, calls |-> <<c>>,
                   attrs |-> ConnReadAttrs(a, Deref(r.ent)),
                   err |-> Nil, id |-> id]

\* variant: a guard that does not list name
ConnGuardAttrs_withoutName ==
    {"type", "account", "database", "warehouse", "role", "allow_sso",
     "allow_keep_alive", "oauth_client_id", "oauth_client_secret"}

\* the d.HasChange tests that guard the fetch and the write of Update
ConnGuardAttrs ==
    {"name", "type", "account", "database", "warehouse", "role", "allow_sso",
     "allow_keep_alive", "oauth_client_id", "oauth_client_secret"}

\* variant: a merge with no branch for name
ConnMerge_nameSkipped(c, a, chg) ==
    LET mc1(x) == x
        mc2(x) == IF "type" \in chg THEN [x EXCEPT !.Type = a.type] ELSE x
        mc3(x) == IF "account" \in chg THEN [x EXCEPT !.Account = a.account] ELSE x
        mc4(x) == IF "database" \in chg
              THEN IF x.Type = "snowflake"
                   THEN [x EXCEPT !.Database = a.database]
                   ELSE [x EXCEPT !.DBName = a.database]
              ELSE x
        mc5(x) == IF "warehouse" \in chg THEN [x EXCEPT !.Warehouse = a.warehouse] ELSE x
        mc6(x) == IF "role" \in chg THEN [x EXCEPT !.Role = a.role] ELSE x
        mc7(x) == IF "allow_sso" \in chg
              THEN [x EXCEPT !.AllowSSO = Ptr(a.allow_sso)] ELSE x
        mc8(x) == IF "allow_keep_alive" \in chg
              THEN [x EXCEPT !.ClientSessionKeepAlive = Ptr(a.allow_keep_alive)]
              ELSE x
        mc9(x) == IF "oauth_client_id" \in chg
              THEN [x EXCEPT !.OAuthClientID = a.oauth_client_id] ELSE x
        mc10(x) == IF "oauth_client_secret" \in chg
               THEN [x EXCEPT !.OAuthClientSecret = a.oauth_client_secret] ELSE x
        mc11(x) == IF "host_name" \in chg THEN [x EXCEPT !.Host = a.host_name] ELSE x
        mc12(x) == IF "port" \in chg THEN [x EXCEPT !.Port = a.port] ELSE x
    IN  mc12(mc11(mc10(mc9(mc8(mc7(
        mc6(mc5(mc4(mc3(mc2(mc1(c))))))))))))

\* resourceConnectionUpdate, the field merge on the fetched entity c
ConnMerge(c, a, chg) ==
    LET mc1(x) == IF "name" \in chg THEN [x EXCEPT !.Name = a.name] ELSE x
        mc2(x) == IF "type" \in chg THEN [x EXCEPT !.Type = a.type] ELSE x
        mc3(x) == IF "account" \in chg THEN [x EXCEPT !.Account = a.account] ELSE x
        mc4(x) == IF "database" \in chg
              THEN IF x.Type = "snowflake"
                   THEN [x EXCEPT !.Database = a.database]
                   ELSE [x EXCEPT !.DBName = a.database]
              ELSE x
        mc5(x) == IF "warehouse" \in chg THEN [x EXCEPT !.Warehouse = a.warehouse] ELSE x
        mc6(x) == IF "role" \in chg THEN [x EXCEPT !.Role = a.role] ELSE x
        mc7(x) == IF "allow_sso" \in chg
              THEN [x EXCEPT !.AllowSSO = Ptr(a.allow_sso)] ELSE x
        mc8(x) == IF "allow_keep_alive" \in chg
              THEN [x EXCEPT !.ClientSessionKeepAlive = Ptr(a.allow_keep_alive)]
              ELSE x
        mc9(x) == IF "oauth_client_id" \in chg
              THEN [x EXCEPT !.OAuthClientID = a.oauth_client_id] ELSE x
        mc10(x) == IF "oauth_client_secret" \in chg
               THEN [x EXCEPT !.OAuthClientSecret = a.oauth_client_secret] ELSE x
        mc11(x) == IF "host_name" \in chg THEN [x EXCEPT !.Host = a.host_name] ELSE x
        mc12(x) == IF "port" \in chg THEN [x EXCEPT !.Port = a.port] ELSE x
    IN  mc12(mc11(mc10(mc9(mc8(mc7(
        mc6(mc5(mc4(mc3(mc2(mc1(c))))))))))))


(***************************************************************************)
(* The job resource.                                                       *)
(***************************************************************************)
JobAttrs ==
    {"project_id", "environment_id", "name", "description", "execute_steps",
     "dbt_version", "is_active", "triggers", "num_threads", "target_name",
     "generate_docs", "run_generate_sources", "schedule_type",
     "schedule_interval", "schedule_hours", "schedule_days", "schedule_cron",
     "deferring_job_id", "deferring_environment_id", "self_deferring",
     "timeout_seconds", "triggers_on_draft_pr",
     "job_completion_trigger_condition"}

\* project_id is ForceNew: a change of it replaces the resource and never
\* reaches Update
JobUpdatableAttrs == JobAttrs \ {"project_id"}

NoTriggers ==
    [github_webhook |-> FALSE, git_provider_webhook |-> FALSE,
     schedule |-> FALSE]

TriggerMaps ==
    <<NoTriggers,
      [NoTriggers EXCEPT !.schedule = TRUE],
      [github_webhook |-> TRUE, git_provider_webhook |-> FALSE,
       schedule |-> FALSE, custom_branch_only |-> TRUE],
      [github_webhook |-> FALSE, git_provider_webhook |-> TRUE]>>

CompletionCondition ==
    [job_id |-> 77, project_id |-> 42, statuses |-> {"success", "error"}]

JobDom(k) ==
    CASE k = "project_id" -> <<42, 5>>
      [] k = "environment_id" -> <<3, 4>>
      [] k = "name" -> <<"job_a", "job_b">>
      [] k = "description" -> <<"", "nightly">>
      [] k = "execute_steps" -> << <<"dbt run">>, <<"dbt run", "dbt test">> >>
      [] k = "dbt_version" -> <<"", "1.5.0">>
      [] k = "is_active" -> <<TRUE, FALSE>>
      [] k = "triggers" -> TriggerMaps
      [] k = "num_threads" -> <<1, 4>>
      [] k = "target_name" -> <<"default", "prod">>
      [] k = "generate_docs" -> <<FALSE, TRUE>>
      [] k = "run_generate_sources" -> <<FALSE, TRUE>>
      [] k = "schedule_type" -> <<"every_day", "days_of_week", "custom_cron">>
      [] k = "schedule_interval" -> <<1, 5>>
      [] k = "schedule_hours" -> << <<>>, <<9, 17>> >>
      [] k = "schedule_days" -> << <<>>, <<1, 3>>, <<0>> >>
      [] k = "schedule_cron" -> <<"", "0 * * * *">>
      [] k = "deferring_job_id" -> <<0, 77>>
      [] k = "deferring_environment_id" -> <<0, 8>>
      [] k = "self_deferring" -> <<FALSE, TRUE>>
      [] k = "timeout_seconds" -> <<0, 300>>
      [] k = "triggers_on_draft_pr" -> <<FALSE, TRUE>>
      [] k = "job_completion_trigger_condition" ->
            <<Nil, Ptr(CompletionCondition)>>

JobZeroAttrs ==
    [project_id |-> 0, environment_id |-> 0, name |-> "", description |-> "",
     execute_steps |-> <<>>, dbt_version |-> "", is_active |-> FALSE,
     triggers |-> <<>>, num_threads |-> 0, target_name |-> "",
     generate_docs |-> FALSE, run_generate_sources |-> FALSE,
     schedule_type |-> "", schedule_interval |-> 0, schedule_hours |-> <<>>,
     schedule_days |-> <<>>, schedule_cron |-> "", deferring_job_id |-> 0,
     deferring_environment_id |-> 0, self_deferring |-> FALSE,
     timeout_seconds |-> 0, triggers_on_draft_pr |-> FALSE,
     job_completion_trigger_condition |-> Nil]

\* jobSchema, the Default entries
JobDefaults ==
    [JobZeroAttrs EXCEPT !.is_active = TRUE, !.num_threads = 1,
                         !.target_name = "default",
                         !.schedule_type = "every_day",
                         !.schedule_interval = 1]

BasicJobConfig ==
    [JobDefaults EXCEPT !.project_id = 42, !.environment_id = 3,
                        !.name = "job_a", !.execute_steps = <<"dbt run">>,
                        !.triggers = TriggerMaps[2]]

DaysJobConfig ==
    [BasicJobConfig EXCEPT !.schedule_type = "days_of_week",
                           !.schedule_days = <<1, 3>>,
                           !.schedule_hours = <<9, 17>>,
                           !.triggers = TriggerMaps[3],
                           !.deferring_job_id = 77]

CronJobConfig ==
    [BasicJobConfig EXCEPT !.schedule_type = "custom_cron",
                           !.schedule_cron = "0 * * * *",
                           !.schedule_interval = 5,
                           !.self_deferring = TRUE,
                           !.job_completion_trigger_condition =
                                Ptr(CompletionCondition)]

JobConfigs == {BasicJobConfig, DaysJobConfig, CronJobConfig}

\* the plans of an Update that reports exactly S as changed
RECURSIVE JobPlans(_, _)
JobPlans(a, S) ==
    IF S = {} THEN {a}
    ELSE LET k == CHOOSE x \in S : TRUE
         IN  UNION {{[p EXCEPT ![k] = v] : v \in Alternatives(JobDom(k), a[k])} :
                    p \in JobPlans(a, S \ {k})}

\* utils.JobCompletionTriggerConditionsMappingCodeHuman and its inverse
StatusCode(name) ==
    CASE name = "success" -> 10 [] name = "error" -> 20 [] OTHER -> 30
StatusName(code) ==
    CASE code = 10 -> "success" [] code = 20 -> "error" [] OTHER -> "canceled"

\* utils.ExtractJobConditionSet(d), as the entity's JobCompletionTrigger
CompletionTrigger(cond) ==
    IF IsNil(cond) THEN Nil
    ELSE Ptr([JobID |-> Deref(cond).job_id,
              ProjectID |-> Deref(cond).project_id,
              Statuses |-> {StatusCode(n) : n \in Deref(cond).statuses}])

TriggerFlag(t, k) == k \in DOMAIN t /\ t[k]

\* c.CreateJob: the entity the remote API stores and returns
NewJob(id, a) ==
    [ID |-> Ptr(id),
     Project_Id |-> a.project_id,
     Environment_Id |-> a.environment_id,
     Name |-> a.name,
     Description |-> a.description,
     Execute_Steps |-> a.execute_steps,
     Dbt_Version |-> IF a.dbt_version = "" THEN Nil ELSE Ptr(a.dbt_version),
     State |-> IF a.is_active THEN STATE_ACTIVE ELSE STATE_DELETED,
     Threads |-> a.num_threads,
     Target_Name |-> a.target_name,
     Generate_Docs |-> a.generate_docs,
     Run_Generate_Sources |-> a.run_generate_sources,
     Date_Type |-> a.schedule_type,
     Date_Days |-> IF a.schedule_type = "days_of_week"
                   THEN Ptr(a.schedule_days) ELSE Nil,
     Date_Cron |-> IF a.schedule_type = "custom_cron"
                   THEN Ptr(a.schedule_cron) ELSE Nil,
     Time_Type |-> IF Len(a.schedule_hours) > 0
                   THEN "at_exact_hours" ELSE "every_hour",
     Time_Interval |-> IF Len(a.schedule_hours) > 0 THEN 0
                       ELSE a.schedule_interval,
     Time_Hours |-> IF Len(a.schedule_hours) > 0
                    THEN Ptr(a.schedule_hours) ELSE Nil,
     Deferring_Job_Id |-> IF a.self_deferring THEN Ptr(id)
                          ELSE IF a.deferring_job_id # 0
                          THEN Ptr(a.deferring_job_id) ELSE Nil,
     DeferringEnvironmentId |-> IF a.deferring_environment_id # 0
                                THEN Ptr(a.deferring_environment_id) ELSE Nil,
     Timeout_Seconds |-> a.timeout_seconds,
     Triggers |-> [Github_Webhook |-> TriggerFlag(a.triggers, "github_webhook"),
                   GitProviderWebhook |->
                       TriggerFlag(a.triggers, "git_provider_webhook"),
                   Schedule |-> TriggerFlag(a.triggers, "schedule")],
     TriggersOnDraftPR |-> a.triggers_on_draft_pr,
     JobCompletionTrigger |->
         CompletionTrigger(a.job_completion_trigger_condition)]

\* a job that was created out of band, before the record exists
SeedJob == NewJob(105, [DaysJobConfig EXCEPT !.name = "job_b"])

\* the remote entity a job ID string addresses
JobFound(jobId) ==
    /\ ~IsNil(remoteJob)
    /\ ~IsNil(Deref(remoteJob).ID)
    /\ Itoa(Deref(Deref(remoteJob).ID)) = jobId

\* c.GetJob(jobId)
GetJob(jobId, fail) ==
    IF fail THEN [ent |-> Nil, err |-> Ptr(ErrRemote)]
    ELSE IF JobFound(jobId) THEN [ent |-> remoteJob, err |-> Nil]
    ELSE [ent |-> Nil, err |-> Ptr(ErrNotFound)]

\* c.UpdateJob(jobId, job): whole-entity replace of the addressed entity
UpdateJob(jobId, job, fail) ==
    IF fail THEN [remote |-> remoteJob, err |-> Ptr(ErrRemote)]
    ELSE IF JobFound(jobId) THEN [remote |-> Ptr(job), err |-> Nil]
    ELSE [remote |-> remoteJob, err |-> Ptr(ErrNotFound)]

\* variant: the triggers map as the remote entity gives it, nothing echoed
JobReadTriggers_remoteOnly(listed, t) ==
    [github_webhook |-> t.Github_Webhook,
     git_provider_webhook |-> t.GitProviderWebhook,
     schedule |-> t.Schedule]

\* resourceJobRead, the triggers map: json.Marshal(job.Triggers), then
\* custom_branch_only echoed from the record when it holds a bool there
JobReadTriggers(listed, t) ==
    LET m == [github_webhook |-> t.Github_Webhook,
              git_provider_webhook |-> t.GitProviderWebhook,
              schedule |-> t.Schedule]
    IN  IF "custom_branch_only" \in DOMAIN listed
        THEN [k \in DOMAIN m \cup {"custom_branch_only"} |->
                 IF k = "custom_branch_only" THEN listed[k] ELSE m[k]]
        ELSE m

\* resourceJobRead: selfDeferring
SelfDeferring(job, jobId) ==
    ~IsNil(job.Deferring_Job_Id) /\ Itoa(Deref(job.Deferring_Job_Id)) = jobId

\* variant: is_active kept as the record holds it
JobReadAttrs_activeEchoed(a, job, jobId) ==
    [project_id |-> job.Project_Id,
     environment_id |-> job.Environment_Id,
     name |-> job.Name,
     description |-> job.Description,
     execute_steps |-> job.Execute_Steps,
     dbt_version |-> PtrOr(job.Dbt_Version, ""),
     is_active |-> a.is_active,
     num_threads |-> job.Threads,
     target_name |-> job.Target_Name,
     generate_docs |-> job.Generate_Docs,
     run_generate_sources |-> job.Run_Generate_Sources,
     schedule_type |-> job.Date_Type,
     schedule_interval |-> IF job.Time_Interval > 0 THEN job.Time_Interval
                           ELSE 1,
     schedule_hours |-> PtrOr(job.Time_Hours, <<>>),
     schedule_days |-> PtrOr(job.Date_Days, <<>>),
     schedule_cron |-> PtrOr(job.Date_Cron, ""),
     deferring_job_id |-> IF SelfDeferring(job, jobId) THEN a.deferring_job_id
                          ELSE PtrOr(job.Deferring_Job_Id, 0),
     deferring_environment_id |-> PtrOr(job.DeferringEnvironmentId, 0),
     self_deferring |-> SelfDeferring(job, jobId),
     timeout_seconds |-> job.Timeout_Seconds,
     triggers |-> JobReadTriggers(a.triggers, job.Triggers),
     triggers_on_draft_pr |-> job.TriggersOnDraftPR,
     job_completion_trigger_condition |->
        IF IsNil(job.JobCompletionTrigger) THEN Nil
        ELSE LET c == Deref(job.JobCompletionTrigger)
             IN  Ptr([job_id |-> c.JobID, project_id |-> c.ProjectID,
                      statuses |-> {StatusName(n) : n \in c.Statuses}])]

\* resourceJobRead, the d.Set calls: the attributes after a successful
\* fetch of job, for a record that held a and has identity jobId
JobReadAttrs(a, job, jobId) ==
    [project_id |-> job.Project_Id,
     environment_id |-> job.Environment_Id,
     name |-> job.Name,
     description |-> job.Description,
     execute_steps |-> job.Execute_Steps,
     dbt_version |-> PtrOr(job.Dbt_Version, ""),
     is_active |-> (job.State = STATE_ACTIVE),
     num_threads |-> job.Threads,
     target_name |-> job.Target_Name,
     generate_docs |-> job.Generate_Docs,
     run_generate_sources |-> job.Run_Generate_Sources,
     schedule_type |-> job.Date_Type,
     schedule_interval |-> IF job.Time_Interval > 0 THEN job.Time_Interval
                           ELSE 1,
     schedule_hours |-> PtrOr(job.Time_Hours, <<>>),
     schedule_days |-> PtrOr(job.Date_Days, <<>>),
     schedule_cron |-> PtrOr(job.Date_Cron, ""),
     deferring_job_id |-> IF SelfDeferring(job, jobId) THEN a.deferring_job_id
                          ELSE PtrOr(job.Deferring_Job_Id, 0),
     deferring_environment_id |-> PtrOr(job.DeferringEnvironmentId, 0),
     self_deferring |-> SelfDeferring(job, jobId),
     timeout_seconds |-> job.Timeout_Seconds,
     triggers |-> JobReadTriggers(a.triggers, job.Triggers),
     triggers_on_draft_pr |-> job.TriggersOnDraftPR,
     job_completion_trigger_condition |->
        IF IsNil(job.JobCompletionTrigger) THEN Nil
        ELSE LET c == Deref(job.JobCompletionTrigger)
             IN  Ptr([job_id |-> c.JobID, project_id |-> c.ProjectID,
                      statuses |-> {StatusName(n) : n \in c.Statuses}])]

\* variant: not-found recognised anywhere in the message
IsNotFound_anywhere(err) ==
    \E i \in 1..Len(err) : err[i] = "resource-not-found"

\* resourceJobRead: the test that tells the not-found condition
IsNotFound(err) == HasPrefix(err, "resource-not-found")

\* variant: a not-found fetch leaves the identity as it was
JobReadBody_idKept(id, a, fail) ==
    LET r == GetJob(id, fail)
        c == Call("GetJob", id, <<>>, Nil, r)
    IN  IF ~IsNil(r.err)
        THEN IF IsNotFound(Deref(r.err))
             THEN [panic |-> FALSE, calls |-> <<c>>, attrs |-> a,
                   err |-> Nil, id |-> id]
             ELSE [panic |-> FALSE, calls |-> <<c>>, attrs |-> a,
                   err |-> r.err, id |-> id]
        ELSE [panic |-> FALSE, calls |-> <<c>>,
              attrs |-> JobReadAttrs(a, Deref(r.ent), id),
              err |-> Nil, id |-> id]

\* resourceJobRead as a whole: what it leaves behind
JobReadBody(id, a, fail) ==
    LET r == GetJob(id, fail)
        c == Call("GetJob", id, <<>>, Nil, r)
    IN  IF ~IsNil(r.err)
        THEN IF IsNotFound(Deref(r.err))
             THEN [panic |-> FALSE, calls |-> <<c>>, attrs |-> a,
                   err |-> Nil, id |-> <<>>]
             ELSE [panic |-> FALSE, calls |-> <<c>>, attrs |-> a,
                   err |-> r.err, id |-> id]
        ELSE [panic |-> FALSE, calls |-> <<c>>,
              attrs |-> JobReadAttrs(a, Deref(r.ent), id),
              err |-> Nil, id |-> id]

\* variant: a guard that also lists is_active
JobGuardAttrs_withIsActive ==
    {"project_id", "environment_id", "name", "description", "dbt_version",
     "num_threads", "target_name", "execute_steps", "run_generate_sources",
     "generate_docs", "triggers", "schedule_type", "schedule_interval",
     "schedule_hours", "schedule_days", "schedule_cron", "deferring_job_id",
     "deferring_environment_id", "self_deferring", "timeout_seconds",
     "triggers_on_drat_pr", "job_completion_trigger_condition", "is_active"}

\* the d.HasChange tests that guard the fetch and the write of Update;
\* "triggers_on_drat_pr" is the key as the guard spells it
JobGuardAttrs ==
    {"project_id", "environment_id", "name", "description", "dbt_version",
     "num_threads", "target_name", "execute_steps", "run_generate_sources",
     "generate_docs", "triggers", "schedule_type", "schedule_interval",
     "schedule_hours", "schedule_days", "schedule_cron", "deferring_job_id",
     "deferring_environment_id", "self_deferring", "timeout_seconds",
     "triggers_on_drat_pr", "job_completion_trigger_condition"}

\* variant: a key that holds no bool is taken as false, without error
TriggersError_absentIsFalse(t) == Nil

\* resourceJobUpdate, the triggers block: the first key that holds no bool
\* ends Update with an error
TriggersError(t) ==
    IF "github_webhook" \notin DOMAIN t
    THEN Ptr(<<"github_webhook", "was not provided">>)
    ELSE IF "git_provider_webhook" \notin DOMAIN t
    THEN Ptr(<<"git_provider_webhook", "was not provided">>)
    ELSE IF "schedule" \notin DOMAIN t
    THEN Ptr(<<"schedule", "was not provided">>)
    ELSE Nil

IntPtr(n) == IF n # 0 THEN Ptr(n) ELSE Nil

\* variant: the schedule_interval branch applied after the schedule_hours one
MergeScheduleFields_intervalLast(x, a, chg) ==
    LET s1(y) == IF "schedule_interval" \in chg
                 THEN [y EXCEPT !.Time_Interval = a.schedule_interval] ELSE y
        s2(y) == IF "schedule_hours" \in chg
                 THEN IF Len(a.schedule_hours) > 0
                      THEN [y EXCEPT !.Time_Hours = Ptr(a.schedule_hours),
                                     !.Time_Type = "at_exact_hours",
                                     !.Time_Interval = 0]
                      ELSE [y EXCEPT !.Time_Hours = Nil,
                                     !.Time_Interval = a.schedule_interval,
                                     !.Time_Type = "every_hour"]
                 ELSE y
        s3(y) == IF "schedule_days" \in chg /\ Len(a.schedule_days) > 0
                 THEN [y EXCEPT !.Date_Days = Ptr(a.schedule_days)] ELSE y
        s4(y) == IF "schedule_cron" \in chg
                 THEN [y EXCEPT !.Date_Cron = Ptr(a.schedule_cron)] ELSE y
    IN  s4(s3(s1(s2(x))))

\* resourceJobUpdate, the schedule sub-fields: schedule_interval,
\* schedule_hours, schedule_days (assigned only when the list is not
\* empty) and schedule_cron, in the order of the code
MergeScheduleFields(x, a, chg) ==
    LET s1(y) == IF "schedule_interval" \in chg
                 THEN [y EXCEPT !.Time_Interval = a.schedule_interval] ELSE y
        s2(y) == IF "schedule_hours" \in chg
                 THEN IF Len(a.schedule_hours) > 0
                      THEN [y EXCEPT !.Time_Hours = Ptr(a.schedule_hours),
                                     !.Time_Type = "at_exact_hours",
                                     !.Time_Interval = 0]
                      ELSE [y EXCEPT !.Time_Hours = Nil,
                                     !.Time_Interval = a.schedule_interval,
                                     !.Time_Type = "every_hour"]
                 ELSE y
        s3(y) == IF "schedule_days" \in chg /\ Len(a.schedule_days) > 0
                 THEN [y EXCEPT !.Date_Days = Ptr(a.schedule_days)] ELSE y
        s4(y) == IF "schedule_cron" \in chg
                 THEN [y EXCEPT !.Date_Cron = Ptr(a.schedule_cron)] ELSE y
    IN  s4(s3(s2(s1(x))))

\* resourceJobUpdate, schedule_type: the type, and the removal of the
\* fields that do not match it
MergeScheduleType(x, a, chg) ==
    IF "schedule_type" \in chg
    THEN [x EXCEPT
             !.Date_Type = a.schedule_type,
             !.Date_Cron =
                 IF a.schedule_type \in {"days_of_week", "every_day"}
                 THEN Nil ELSE x.Date_Cron,
             !.Date_Days =
                 IF a.schedule_type \in {"custom_cron", "every_day"}
                 THEN Nil ELSE x.Date_Days]
    ELSE x

\* variant: the type applied before the sub-fields
MergeSchedule_typeFirst(x, a, chg) ==
    MergeScheduleFields(MergeScheduleType(x, a, chg), a, chg)

\* resourceJobUpdate, the schedule block: "we set this after the subfields
\* to remove the fields not matching the schedule type"
MergeSchedule(x, a, chg) ==
    MergeScheduleType(MergeScheduleFields(x, a, chg), a, chg)

\* variant: the deferring_job_id branch applied after the self_deferring one
JobMergeFields_deferringIdLast(job, a, chg) ==
    LET mj1(x) == IF "project_id" \in chg
              THEN [x EXCEPT !.Project_Id = a.project_id] ELSE x
        mj2(x) == IF "environment_id" \in chg
              THEN [x EXCEPT !.Environment_Id = a.environment_id] ELSE x
        mj3(x) == IF "name" \in chg THEN [x EXCEPT !.Name = a.name] ELSE x
        mj4(x) == IF "description" \in chg
              THEN [x EXCEPT !.Description = a.description] ELSE x
        mj5(x) == IF "dbt_version" \in chg
              THEN [x EXCEPT !.Dbt_Version = Ptr(a.dbt_version)] ELSE x
        mj6(x) == IF "num_threads" \in chg
              THEN [x EXCEPT !.Threads = a.num_threads] ELSE x
        mj7(x) == IF "target_name" \in chg
              THEN [x EXCEPT !.Target_Name = a.target_name] ELSE x
        mj8(x) == IF "run_generate_sources" \in chg
              THEN [x EXCEPT !.Run_Generate_Sources = a.run_generate_sources]
              ELSE x
        mj9(x) == IF "generate_docs" \in chg
              THEN [x EXCEPT !.Generate_Docs = a.generate_docs] ELSE x
        mj10(x) == IF "execute_steps" \in chg
               THEN [x EXCEPT !.Execute_Steps = a.execute_steps] ELSE x
        mj11(x) == IF "triggers" \in chg
               THEN [x EXCEPT !.Triggers =
                        [Github_Webhook |->
                             TriggerFlag(a.triggers, "github_webhook"),
                         GitProviderWebhook |->
                             TriggerFlag(a.triggers, "git_provider_webhook"),
                         Schedule |-> TriggerFlag(a.triggers, "schedule")]]
               ELSE x
        mj12(x) == MergeSchedule(x, a, chg)
        mj13(x) == IF "deferring_job_id" \in chg
               THEN [x EXCEPT !.Deferring_Job_Id = IntPtr(a.deferring_job_id)]
               ELSE x
        mj14(x) == IF "deferring_environment_id" \in chg
               THEN [x EXCEPT !.DeferringEnvironmentId =
                                    IntPtr(a.deferring_environment_id)]
               ELSE x
        mj15(x) == IF "self_deferring" \in chg
               THEN IF a.self_deferring = TRUE
                    THEN [x EXCEPT !.Deferring_Job_Id = Ptr(Deref(x.ID))]
                    ELSE [x EXCEPT !.Deferring_Job_Id =
                                         IntPtr(a.deferring_job_id)]
               ELSE x
        mj16(x) == IF "timeout_seconds" \in chg
               THEN [x EXCEPT !.Timeout_Seconds = a.timeout_seconds] ELSE x
        mj17(x) == IF "triggers_on_draft_pr" \in chg
               THEN [x EXCEPT !.TriggersOnDraftPR = a.triggers_on_draft_pr]
               ELSE x
        mj18(x) == IF "job_completion_trigger_condition" \in chg
               THEN [x EXCEPT !.JobCompletionTrigger =
                        CompletionTrigger(a.job_completion_trigger_condition)]
               ELSE x
    IN  mj18(mj17(mj16(mj13(mj14(mj15(mj12(
        mj11(mj10(mj9(mj8(mj7(mj6(mj5(mj4(mj3(mj2(mj1(job)
        )))))))))))))))))

\* resourceJobUpdate, the field merge on the fetched entity job, in the
\* order of the code
JobMergeFields(job, a, chg) ==
    LET mj1(x) == IF "project_id" \in chg
              THEN [x EXCEPT !.Project_Id = a.project_id] ELSE x
        mj2(x) == IF "environment_id" \in chg
              THEN [x EXCEPT !.Environment_Id = a.environment_id] ELSE x
        mj3(x) == IF "name" \in chg THEN [x EXCEPT !.Name = a.name] ELSE x
        mj4(x) == IF "description" \in chg
              THEN [x EXCEPT !.Description = a.description] ELSE x
        mj5(x) == IF "dbt_version" \in chg
              THEN [x EXCEPT !.Dbt_Version = Ptr(a.dbt_version)] ELSE x
        mj6(x) == IF "num_threads" \in chg
              THEN [x EXCEPT !.Threads = a.num_threads] ELSE x
        mj7(x) == IF "target_name" \in chg
              THEN [x EXCEPT !.Target_Name = a.target_name] ELSE x
        mj8(x) == IF "run_generate_sources" \in chg
              THEN [x EXCEPT !.Run_Generate_Sources = a.run_generate_sources]
              ELSE x
        mj9(x) == IF "generate_docs" \in chg
              THEN [x EXCEPT !.Generate_Docs = a.generate_docs] ELSE x
        mj10(x) == IF "execute_steps" \in chg
               THEN [x EXCEPT !.Execute_Steps = a.execute_steps] ELSE x
        mj11(x) == IF "triggers" \in chg
               THEN [x EXCEPT !.Triggers =
                        [Github_Webhook |->
                             TriggerFlag(a.triggers, "github_webhook"),
                         GitProviderWebhook |->
                             TriggerFlag(a.triggers, "git_provider_webhook"),
                         Schedule |-> TriggerFlag(a.triggers, "schedule")]]
               ELSE x
        mj12(x) == MergeSchedule(x, a, chg)
        mj13(x) == IF "deferring_job_id" \in chg
               THEN [x EXCEPT !.Deferring_Job_Id = IntPtr(a.deferring_job_id)]
               ELSE x
        mj14(x) == IF "deferring_environment_id" \in chg
               THEN [x EXCEPT !.DeferringEnvironmentId =
                                    IntPtr(a.deferring_environment_id)]
               ELSE x
        mj15(x) == IF "self_deferring" \in chg
               THEN IF a.self_deferring = TRUE
                    THEN [x EXCEPT !.Deferring_Job_Id = Ptr(Deref(x.ID))]
                    ELSE [x EXCEPT !.Deferring_Job_Id =
                                         IntPtr(a.deferring_job_id)]
               ELSE x
        mj16(x) == IF "timeout_seconds" \in chg
               THEN [x EXCEPT !.Timeout_Seconds = a.timeout_seconds] ELSE x
        mj17(x) == IF "triggers_on_draft_pr" \in chg
               THEN [x EXCEPT !.TriggersOnDraftPR = a.triggers_on_draft_pr]
               ELSE x
        mj18(x) == IF "job_completion_trigger_condition" \in chg
               THEN [x EXCEPT !.JobCompletionTrigger =
                        CompletionTrigger(a.job_completion_trigger_condition)]
               ELSE x
    IN  mj18(mj17(mj16(mj15(mj14(mj13(mj12(
        mj11(mj10(mj9(mj8(mj7(mj6(mj5(mj4(mj3(mj2(mj1(job)
        )))))))))))))))))

\* variant: a merge that also assigns the description from the local state
\* when description is not reported changed
JobMerge_alsoDescription(job, a, chg) ==
    IF "triggers" \in chg /\ ~IsNil(TriggersError(a.triggers))
    THEN [job |-> job, err |-> TriggersError(a.triggers)]
    ELSE [job |-> JobMergeFields(job, a, chg \cup {"description"}),
          err |-> Nil]

\* resourceJobUpdate from the fetch to the write: the entity to send, or
\* the error that ends Update in the triggers block
JobMerge(job, a, chg) ==
    IF "triggers" \in chg /\ ~IsNil(TriggersError(a.triggers))
    THEN [job |-> job, err |-> TriggersError(a.triggers)]
    ELSE [job |-> JobMergeFields(job, a, chg), err |-> Nil]

(***************************************************************************)
(* The state record and the handlers' bookkeeping.                         *)
(***************************************************************************)
ZeroAttrs(kind) == IF kind = "connection" THEN ConnZeroAttrs ELSE JobZeroAttrs

\* a handler returns: diag.Diagnostics with or without an error, or a panic
Returned(r, e) ==
    /\ pc' = "idle"
    /\ result' = r
    /\ errmsg' = e

\* a handler is invoked with the record as the runtime prepared it
Invoked(name, a) ==
    /\ op' = name
    /\ idAtStart' = recId
    /\ attrsAtStart' = a

Outcome(body) ==
    IF body.panic THEN "panic" ELSE IF IsNil(body.err) THEN "ok" ELSE "error"

\* schema.ImportStatePassthroughContext: the identity is taken as given
Import(kind, ids) ==
    /\ pc = "idle" /\ phase = "new" /\ res = kind
    /\ \E id \in ids :
        /\ recId' = id
        /\ phase' = "imported"
        /\ Invoked("Import", attrs)
        /\ Returned("ok", Nil)
        /\ calls' = <<>>
        /\ UNCHANGED <<res, attrs, changed, ent, remoteJob, remoteConn, drift>>

\* the hosting runtime hands the handlers a record it persisted earlier
\* (written by an earlier run or release, or edited by hand): the identity
\* reaches the handlers as stored
Restore(kind, ids, a) ==
    /\ pc = "idle" /\ phase = "new" /\ res = kind
    /\ \E id \in ids :
        /\ recId' = id
        /\ attrs' = a
        /\ phase' = "managed"
        /\ Invoked("Restore", a)
        /\ Returned("ok", Nil)
        /\ calls' = <<>>
        /\ UNCHANGED <<res, changed, ent, remoteJob, remoteConn, drift>>

(***************************************************************************)
(* Connection handlers.                                                    *)
(***************************************************************************)
\* variant: Create goes on to the identity and the read-back whatever the
\* create call returned
ConnCreate_errorIgnored(cfgs, ids) ==
    /\ pc = "idle" /\ phase = "new" /\ res = "connection"
    /\ IsNil(remoteConn)
    /\ \E a \in cfgs, id \in ids, fail \in BOOLEAN :
        LET connection == NewConnection(id, a)
            r == IF fail THEN [ent |-> Nil, err |-> Ptr(ErrRemote)]
                 ELSE [ent |-> Ptr(connection), err |-> Nil]
        IN  /\ Invoked("Create", a)
            /\ attrs' = a
            /\ changed' = {}
            /\ ent' = r.ent
            /\ calls' = <<Call("CreateConnection", <<>>, Itoa(a.project_id),
                               Ptr(a), r)>>
            /\ IF FALSE
               THEN /\ Returned("error", r.err)
                    /\ phase' = "failed"
                    /\ UNCHANGED <<recId, remoteConn>>
               ELSE /\ remoteConn' = r.ent
                    /\ recId' = EncodeId(connection.ProjectID,
                                         Deref(connection.ID))
                    /\ pc' = "create_read"
                    /\ result' = "running"
                    /\ errmsg' = Nil
                    /\ phase' = "managed"
            /\ UNCHANGED <<res, remoteJob, drift>>

\* resourceConnectionCreate up to d.SetId
ConnCreate(cfgs, ids) ==
    /\ pc = "idle" /\ phase = "new" /\ res = "connection"
    /\ IsNil(remoteConn)
    /\ \E a \in cfgs, id \in ids, fail \in BOOLEAN :
        LET connection == NewConnection(id, a)
            r == IF fail THEN [ent |-> Nil, err |-> Ptr(ErrRemote)]
                 ELSE [ent |-> Ptr(connection), err |-> Nil]
        IN  /\ Invoked("Create", a)
            /\ attrs' = a
            /\ changed' = {}
            /\ ent' = r.ent
            /\ calls' = <<Call("CreateConnection", <<>>, Itoa(a.project_id),
                               Ptr(a), r)>>
            /\ IF fail
               THEN /\ Returned("error", r.err)
                    /\ phase' = "failed"
                    /\ UNCHANGED <<recId, remoteConn>>
               ELSE /\ remoteConn' = r.ent
                    /\ recId' = EncodeId(connection.ProjectID,
                                         Deref(connection.ID))
                    /\ pc' = "create_read"
                    /\ result' = "running"
                    /\ errmsg' = Nil
                    /\ phase' = "managed"
            /\ UNCHANGED <<res, remoteJob, drift>>

\* resourceConnectionCreate: resourceConnectionRead(ctx, d, m), its
\* diagnostics dropped, then return diags
ConnCreateRead ==
    /\ pc = "create_read" /\ res = "connection"
    /\ \E fail \in BOOLEAN :
        LET body == ConnReadBody(recId, attrs, fail)
        IN  /\ calls' = calls \o body.calls
            /\ attrs' = body.attrs
            /\ recId' = body.id
            /\ Returned(IF body.panic THEN "panic" ELSE "ok", Nil)
            /\ phase' = IF body.panic THEN "crashed" ELSE phase
    /\ UNCHANGED <<res, op, changed, ent, remoteJob, remoteConn, idAtStart,
                   attrsAtStart, drift>>

\* the life cycle after a Read handler returned
AfterRead(out, id) ==
    CASE out = "panic" -> "crashed"
      [] out = "error" /\ phase = "imported" -> "failed"
      [] out = "ok" /\ id = <<>> -> "gone"
      [] out = "ok" /\ phase = "imported" -> "managed"
      [] OTHER -> phase

\* resourceConnectionRead
ConnRead ==
    /\ pc = "idle" /\ res = "connection"
    /\ phase \in {"imported", "managed", "updated"}
    /\ \E fail \in BOOLEAN :
        LET body == ConnReadBody(recId, attrs, fail)
        IN  /\ Invoked("Read", attrs)
            /\ calls' = body.calls
            /\ attrs' = body.attrs
            /\ recId' = body.id
            /\ Returned(Outcome(body), body.err)
            /\ phase' = AfterRead(Outcome(body), body.id)
    /\ UNCHANGED <<res, changed, ent, remoteJob, remoteConn, drift>>

\* resourceConnectionUpdate up to c.GetConnection
ConnUpdateFetch(sets) ==
    /\ pc = "idle" /\ res = "connection" /\ phase = "managed"
    /\ \E S \in sets, fail \in BOOLEAN :
       \E planned \in ConnPlans(attrs, S) :
        LET            cid == ConnectionIdString(recId)
            pid == ProjectIdString(recId)
            r == GetConnection(cid, pid, fail)
        IN  /\ Invoked("Update", planned)
            /\ attrs' = planned
            /\ changed' = S
            /\ IF IdPanics(recId)
               THEN /\ Returned("panic", Nil)
                    /\ phase' = "crashed"
                    /\ calls' = <<>>
                    /\ ent' = Nil
               ELSE IF S \cap ConnGuardAttrs = {}
               THEN /\ pc' = "update_read"
                    /\ result' = "running"
                    /\ errmsg' = Nil
                    /\ phase' = "updated"
                    /\ calls' = <<>>
                    /\ ent' = Nil
               ELSE /\ calls' = <<Call("GetConnection", cid, pid, Nil, r)>>
                    /\ ent' = r.ent
                    /\ phase' = "updated"
                    /\ IF IsNil(r.err)
                       THEN /\ pc' = "update_write"
                            /\ result' = "running"
                            /\ errmsg' = Nil
                       ELSE Returned("error", r.err)
    /\ UNCHANGED <<res, recId, remoteJob, remoteConn, drift>>

\* resourceConnectionUpdate from the merge to c.UpdateConnection
ConnUpdateWrite ==
    /\ pc = "update_write" /\ res = "connection"
    /\ \E fail \in BOOLEAN :
        LET connection == ConnMerge(Deref(ent), attrs, changed)
            cid == ConnectionIdString(recId)
            pid == ProjectIdString(recId)
            r == UpdateConnection(cid, pid, connection, fail)
        IN  /\ ent' = Ptr(connection)
            /\ remoteConn' = r.remote
            /\ calls' = Append(calls, Call("UpdateConnection", cid, pid,
                                           Ptr(connection),
                                           [ent |-> Nil, err |-> r.err]))
            /\ IF IsNil(r.err)
               THEN /\ pc' = "update_read"
                    /\ UNCHANGED <<result, errmsg>>
               ELSE Returned("error", r.err)
    /\ UNCHANGED <<res, phase, op, recId, attrs, changed, remoteJob,
                   idAtStart, attrsAtStart, drift>>

\* resourceConnectionUpdate: return resourceConnectionRead(ctx, d, m)
ConnUpdateRead ==
    /\ pc = "update_read" /\ res = "connection"
    /\ \E fail \in BOOLEAN :
        LET body == ConnReadBody(recId, attrs, fail)
        IN  /\ calls' = calls \o body.calls
            /\ attrs' = body.attrs
            /\ recId' = body.id
            /\ Returned(Outcome(body), body.err)
            /\ phase' = IF body.panic THEN "crashed" ELSE phase
    /\ UNCHANGED <<res, op, changed, ent, remoteJob, remoteConn, idAtStart,
                   attrsAtStart, drift>>

\* variant: Delete sends the connection's ID in an update call
ConnDeleteCall_asUpdate(cid, pid, r) ==
    Call("UpdateConnection", cid, pid, Nil, [ent |-> Nil, err |-> r.err])

\* resourceConnectionDelete: c.DeleteConnection(connectionIdString,
\* projectIdString), the one remote call of the handler
ConnDeleteCall(cid, pid, r) ==
    Call("DeleteConnection", cid, pid, Nil, [ent |-> Nil, err |-> r.err])

\* variant: the error of the delete call is dropped
DeleteOutcome_errorDropped(err) == "ok"

\* resourceConnectionDelete: if err != nil { return diag.FromErr(err) },
\* else return diags
DeleteOutcome(err) == IF IsNil(err) THEN "ok" ELSE "error"

\* resourceConnectionDelete
ConnDelete ==
    /\ pc = "idle" /\ res = "connection"
    /\ phase \in {"managed", "updated"}
    /\ \E fail \in BOOLEAN :
        LET cid == ConnectionIdString(recId)
            pid == ProjectIdString(recId)
            r == DeleteConnection(cid, pid, fail)
        IN  /\ Invoked("Delete", attrs)
            /\ IF IdPanics(recId)
               THEN /\ Returned("panic", Nil)
                    /\ phase' = "crashed"
                    /\ calls' = <<>>
                    /\ UNCHANGED remoteConn
               ELSE /\ calls' = <<ConnDeleteCall(cid, pid, r)>>
                    /\ remoteConn' = r.remote
                    /\ Returned(DeleteOutcome(r.err), r.err)
                    /\ phase' = IF DeleteOutcome(r.err) = "ok"
                                THEN "destroyed" ELSE phase
    /\ UNCHANGED <<res, recId, attrs, changed, ent, remoteJob, drift>>

\* the text an error must hold for the destroy check to accept it
NotFoundText == "resource-not-found"

\* regexp.MustCompile(notFoundErr).Match(err.Error()): found anywhere
Matches(err, text) == \E i \in 1..Len(err) : err[i] = text

\* the destroy check of the acceptance tests: after the resource was
\* destroyed, fetch it by the two halves of its last identity and expect
\* an error that reads not found
ConnCheckDestroy ==
    /\ pc = "idle" /\ res = "connection" /\ phase = "destroyed"
    /\ \E fail \in BOOLEAN :
        LET projectId == IdParts(recId)[1]
            connectionId == IdParts(recId)[2]
            r == GetConnection(connectionId, projectId, fail)
        IN  /\ Invoked("CheckDestroy", attrs)
            /\ calls' = <<Call("GetConnection", connectionId, projectId,
                               Nil, r)>>
            /\ IF IsNil(r.err)
               THEN Returned("error", Ptr(<<"Connection still exists">>))
               ELSE IF ~Matches(Deref(r.err), NotFoundText)
               THEN Returned("error", r.err)
               ELSE Returned("ok", Nil)
    /\ UNCHANGED <<res, phase, recId, attrs, changed, ent, remoteJob,
                   remoteConn, drift>>

(***************************************************************************)
(* Job handlers.                                                           *)
(***************************************************************************)
\* resourceJobCreate up to d.SetId
JobCreate(cfgs, ids) ==
    /\ pc = "idle" /\ phase = "new" /\ res = "job"
    /\ IsNil(remoteJob)
    /\ \E a \in cfgs, id \in ids, fail \in BOOLEAN :
        LET j == NewJob(id, a)
            r == IF fail THEN [ent |-> Nil, err |-> Ptr(ErrRemote)]
                 ELSE [ent |-> Ptr(j), err |-> Nil]
        IN  /\ Invoked("Create", a)
            /\ attrs' = a
            /\ changed' = {}
            /\ ent' = r.ent
            /\ calls' = <<Call("CreateJob", <<>>, <<>>, Ptr(a), r)>>
            /\ IF fail
               THEN /\ Returned("error", r.err)
                    /\ phase' = "failed"
                    /\ UNCHANGED <<recId, remoteJob>>
               ELSE /\ remoteJob' = r.ent
                    /\ recId' = Itoa(Deref(j.ID))
                    /\ pc' = "create_read"
                    /\ result' = "running"
                    /\ errmsg' = Nil
                    /\ phase' = "managed"
            /\ UNCHANGED <<res, remoteConn, drift>>

\* variant: the read-back fetches twice
JobCreateRead_fetchTwice ==
    /\ pc = "create_read" /\ res = "job"
    /\ \E fail \in BOOLEAN :
        LET body == JobReadBody(recId, attrs, fail)
        IN  /\ calls' = calls \o body.calls \o body.calls
            /\ attrs' = body.attrs
            /\ recId' = body.id
            /\ Returned("ok", Nil)
            /\ phase' = IF body.id = <<>> THEN "gone" ELSE phase
    /\ UNCHANGED <<res, op, changed, ent, remoteJob, remoteConn, idAtStart,
                   attrsAtStart, drift>>

\* resourceJobCreate: resourceJobRead(ctx, d, m), its diagnostics dropped,
\* then return diags
JobCreateRead ==
    /\ pc = "create_read" /\ res = "job"
    /\ \E fail \in BOOLEAN :
        LET body == JobReadBody(recId, attrs, fail)
        IN  /\ calls' = calls \o body.calls
            /\ attrs' = body.attrs
            /\ recId' = body.id
            /\ Returned("ok", Nil)
            /\ phase' = IF body.id = <<>> THEN "gone" ELSE phase
    /\ UNCHANGED <<res, op, changed, ent, remoteJob, remoteConn, idAtStart,
                   attrsAtStart, drift>>

\* resourceJobRead
JobRead ==
    /\ pc = "idle" /\ res = "job"
    /\ phase \in {"imported", "managed", "updated"}
    /\ \E fail \in BOOLEAN :
        LET body == JobReadBody(recId, attrs, fail)
        IN  /\ Invoked("Read", attrs)
            /\ calls' = body.calls
            /\ attrs' = body.attrs
            /\ recId' = body.id
            /\ Returned(Outcome(body), body.err)
            /\ phase' = AfterRead(Outcome(body), body.id)
    /\ UNCHANGED <<res, changed, ent, remoteJob, remoteConn, drift>>

\* resourceJobUpdate up to c.GetJob
JobUpdateFetch(sets) ==
    /\ pc = "idle" /\ res = "job" /\ phase = "managed"
    /\ \E S \in sets, fail \in BOOLEAN :
       \E planned \in JobPlans(attrs, S) :
        LET            r == GetJob(recId, fail)
        IN  /\ Invoked("Update", planned)
            /\ attrs' = planned
            /\ changed' = S
            /\ phase' = "updated"
            /\ IF S \cap JobGuardAttrs = {}
               THEN /\ pc' = "update_read"
                    /\ result' = "running"
                    /\ errmsg' = Nil
                    /\ calls' = <<>>
                    /\ ent' = Nil
               ELSE /\ calls' = <<Call("GetJob", recId, <<>>, Nil, r)>>
                    /\ ent' = r.ent
                    /\ IF IsNil(r.err)
                       THEN /\ pc' = "update_write"
                            /\ result' = "running"
                            /\ errmsg' = Nil
                       ELSE Returned("error", r.err)
    /\ UNCHANGED <<res, recId, remoteJob, remoteConn, drift>>

\* resourceJobUpdate from the merge to c.UpdateJob
JobUpdateWrite ==
    /\ pc = "update_write" /\ res = "job"
    /\ \E fail \in BOOLEAN :
        LET m == JobMerge(Deref(ent), attrs, changed)
            r == UpdateJob(recId, m.job, fail)
        IN  IF ~IsNil(m.err)
            THEN /\ Returned("error", m.err)
                 /\ UNCHANGED <<ent, remoteJob, calls>>
            ELSE /\ ent' = Ptr(m.job)
                 /\ remoteJob' = r.remote
                 /\ calls' = Append(calls, Call("UpdateJob", recId, <<>>,
                                                Ptr(m.job),
                                                [ent |-> Nil, err |-> r.err]))
                 /\ IF IsNil(r.err)
                    THEN /\ pc' = "update_read"
                         /\ UNCHANGED <<result, errmsg>>
                    ELSE Returned("error", r.err)
    /\ UNCHANGED <<res, phase, op, recId, attrs, changed, remoteConn,
                   idAtStart, attrsAtStart, drift>>

\* resourceJobUpdate: return resourceJobRead(ctx, d, m)
JobUpdateRead ==
    /\ pc = "update_read" /\ res = "job"
    /\ \E fail \in BOOLEAN :
        LET body == JobReadBody(recId, attrs, fail)
        IN  /\ calls' = calls \o body.calls
            /\ attrs' = body.attrs
            /\ recId' = body.id
            /\ Returned(Outcome(body), body.err)
            /\ phase' = IF body.id = <<>> THEN "gone" ELSE phase
    /\ UNCHANGED <<res, op, changed, ent, remoteJob, remoteConn, idAtStart,
                   attrsAtStart, drift>>

\* variant: the fetched job sent back as it is
DeletedJob_asFetched(job) == job

\* resourceJobDelete: job.State = dbt_cloud.STATE_DELETED
DeletedJob(job) == [job EXCEPT !.State = STATE_DELETED]

\* variant: Delete writes the entity back without fetching it
JobDeleteFetch_noFetch ==
    /\ pc = "idle" /\ res = "job"
    /\ phase \in {"managed", "updated"}
    /\ ~IsNil(remoteJob)
    /\ Invoked("Delete", attrs)
    /\ calls' = <<>>
    /\ ent' = remoteJob
    /\ pc' = "delete_write"
    /\ result' = "running"
    /\ errmsg' = Nil
    /\ UNCHANGED <<res, phase, recId, attrs, changed, remoteJob, remoteConn,
                   drift>>

\* resourceJobDelete up to c.GetJob
JobDeleteFetch ==
    /\ pc = "idle" /\ res = "job"
    /\ phase \in {"managed", "updated"}
    /\ \E fail \in BOOLEAN :
        LET r == GetJob(recId, fail)
        IN  /\ Invoked("Delete", attrs)
            /\ calls' = <<Call("GetJob", recId, <<>>, Nil, r)>>
            /\ ent' = r.ent
            /\ IF IsNil(r.err)
               THEN /\ pc' = "delete_write"
                    /\ result' = "running"
                    /\ errmsg' = Nil
               ELSE Returned("error", r.err)
    /\ UNCHANGED <<res, phase, recId, attrs, changed, remoteJob, remoteConn,
                   drift>>

\* resourceJobDelete: job.State = dbt_cloud.STATE_DELETED, c.UpdateJob
JobDeleteWrite ==
    /\ pc = "delete_write" /\ res = "job"
    /\ \E fail \in BOOLEAN :
        LET job == DeletedJob(Deref(ent))
            r == UpdateJob(recId, job, fail)
        IN  /\ ent' = Ptr(job)
            /\ remoteJob' = r.remote
            /\ calls' = Append(calls, Call("UpdateJob", recId, <<>>, Ptr(job),
                                           [ent |-> Nil, err |-> r.err]))
            /\ Returned(IF IsNil(r.err) THEN "ok" ELSE "error", r.err)
            /\ phase' = IF IsNil(r.err) THEN "destroyed" ELSE phase
    /\ UNCHANGED <<res, op, recId, attrs, changed, remoteConn, idAtStart,
                   attrsAtStart, drift>>

(***************************************************************************)
(* Import state verification, the IMPORT step of the acceptance tests      *)
(* (ImportState, ImportStateVerify): the identity of a created resource is *)
(* imported into an empty record, Read fills it, and the outcome is set    *)
(* against the record held before, which attrsAtStart keeps.               *)
(***************************************************************************)
\* Create has returned and its read-back filled the record
CreatedAndRead ==
    /\ pc = "idle" /\ phase = "managed" /\ op = "Create" /\ result = "ok"
    /\ Len(calls) = 2 /\ IsNil(calls[2].err)

ConnImportStateVerify ==
    /\ res = "connection" /\ CreatedAndRead
    /\ \E fail \in BOOLEAN :
        LET body == ConnReadBody(recId, ConnZeroAttrs, fail)
        IN  /\ Invoked("ImportStateVerify", attrs)
            /\ calls' = body.calls
            /\ attrs' = body.attrs
            /\ recId' = body.id
            /\ Returned(Outcome(body), body.err)
            /\ phase' = "verified"
    /\ UNCHANGED <<res, changed, ent, remoteJob, remoteConn, drift>>

JobImportStateVerify ==
    /\ res = "job" /\ CreatedAndRead
    /\ \E fail \in BOOLEAN :
        LET body == JobReadBody(recId, JobZeroAttrs, fail)
        IN  /\ Invoked("ImportStateVerify", attrs)
            /\ calls' = body.calls
            /\ attrs' = body.attrs
            /\ recId' = body.id
            /\ Returned(Outcome(body), body.err)
            /\ phase' = "verified"
    /\ UNCHANGED <<res, changed, ent, remoteJob, remoteConn, drift>>

(***************************************************************************)
(* Another writer: the remote API serves other clients too, and nothing    *)
(* locks an entity between a handler's fetch and its write.                *)
(***************************************************************************)
JobDriftFields ==
    {"Project_Id", "Environment_Id", "Name", "Description", "Execute_Steps",
     "Dbt_Version", "State", "Threads", "Target_Name", "Generate_Docs",
     "Run_Generate_Sources", "Date_Type", "Date_Days", "Date_Cron",
     "Time_Type", "Time_Interval", "Time_Hours", "Deferring_Job_Id",
     "DeferringEnvironmentId", "Timeout_Seconds", "Triggers",
     "TriggersOnDraftPR", "JobCompletionTrigger"}

ConnDriftFields ==
    {"Name", "Type", "State", "Account", "Database", "DBName", "Warehouse",
     "Role", "AllowSSO", "ClientSessionKeepAlive", "OAuthClientID",
     "OAuthClientSecret", "Host", "Port", "TunnelEnabled", "AdapterDetails"}

\* the value the other writer stores in field f, never the one it holds
DriftValue(f, cur) ==
    CASE f \in {"Name", "Description", "Target_Name", "Account", "Database",
                "DBName", "Warehouse", "Role", "OAuthClientID",
                "OAuthClientSecret", "Host"} -> "drifted"
      [] f \in {"Project_Id", "Environment_Id", "Threads", "Time_Interval",
                "Timeout_Seconds", "Port"} -> 9
      [] f \in {"Generate_Docs", "Run_Generate_Sources",
                "TriggersOnDraftPR"} -> ~cur
      [] f \in {"AllowSSO", "ClientSessionKeepAlive", "TunnelEnabled"} ->
            Ptr(~PtrOr(cur, FALSE))
      [] f = "State" ->
            IF cur = STATE_ACTIVE THEN STATE_DELETED ELSE STATE_ACTIVE
      [] f = "Type" -> IF cur = "postgres" THEN "redshift" ELSE "postgres"
      [] f = "Execute_Steps" -> <<"dbt seed">>
      [] f \in {"Dbt_Version", "Date_Cron"} -> Ptr("drifted")
      [] f \in {"Date_Days", "Time_Hours"} -> Ptr(<<6>>)
      [] f \in {"Deferring_Job_Id", "DeferringEnvironmentId"} -> Ptr(9)
      [] f = "Date_Type" ->
            IF cur = "every_day" THEN "days_of_week" ELSE "every_day"
      [] f = "Time_Type" ->
            IF cur = "every_hour" THEN "at_exact_hours" ELSE "every_hour"
      [] f = "Triggers" ->
            [Github_Webhook |-> ~cur.Github_Webhook,
             GitProviderWebhook |-> ~cur.GitProviderWebhook,
             Schedule |-> ~cur.Schedule]
      [] f = "JobCompletionTrigger" ->
            Ptr([JobID |-> 9, ProjectID |-> 9, Statuses |-> {30}])
      [] f = "AdapterDetails" ->
            Ptr([http_path |-> "drifted", catalog |-> "drifted",
                 host |-> "drifted"])

NoDrift == [field |-> "none", stage |-> "none"]

\* when the other writer wrote, relative to the one Update of the record
DriftStage ==
    IF op # "Update" THEN "before_fetch"
    ELSE IF pc = "update_write" THEN "before_write"
    ELSE "later"

\* one whole-entity write of another client, changing one field
OtherWriter ==
    /\ drift = NoDrift
    /\ phase \in {"managed", "updated"}
    /\ \/ /\ res = "job" /\ ~IsNil(remoteJob)
          /\ \E f \in JobDriftFields :
              LET v == DriftValue(f, Deref(remoteJob)[f])
              IN  /\ remoteJob' = Ptr([Deref(remoteJob) EXCEPT ![f] = v])
                  /\ drift' = [field |-> f, stage |-> DriftStage, value |-> v]
          /\ UNCHANGED remoteConn
       \/ /\ res = "connection" /\ ~IsNil(remoteConn)
          /\ \E f \in ConnDriftFields :
              LET v == DriftValue(f, Deref(remoteConn)[f])
              IN  /\ remoteConn' = Ptr([Deref(remoteConn) EXCEPT ![f] = v])
                  /\ drift' = [field |-> f, stage |-> DriftStage, value |-> v]
          /\ UNCHANGED remoteJob
    /\ UNCHANGED <<res, phase, pc, op, recId, attrs, changed, ent, calls,
                   result, errmsg, idAtStart, attrsAtStart>>

\* another client removes the entity: from then on it is absent remotely
OtherRemoval ==
    /\ phase \in {"managed", "updated"}
    /\ \/ /\ res = "job" /\ ~IsNil(remoteJob)
          /\ remoteJob' = Nil
          /\ UNCHANGED remoteConn
       \/ /\ res = "connection" /\ ~IsNil(remoteConn)
          /\ remoteConn' = Nil
          /\ UNCHANGED remoteJob
    /\ UNCHANGED <<res, phase, pc, op, recId, attrs, changed, ent, calls,
                   result, errmsg, idAtStart, attrsAtStart, drift>>

(***************************************************************************)
(* Specifications.                                                         *)
(***************************************************************************)
Kinds == {"job", "connection"}

Init ==
    /\ res \in Kinds
    /\ phase = "new"
    /\ pc = "idle"
    /\ op = "none"
    /\ recId = <<>>
    /\ attrs = ZeroAttrs(res)
    /\ changed = {}
    /\ ent = Nil
    /\ \E seeded \in BOOLEAN :
        /\ remoteJob = IF seeded /\ res = "job" THEN Ptr(SeedJob) ELSE Nil
        /\ remoteConn = IF seeded /\ res = "connection" THEN Ptr(SeedConn)
                        ELSE Nil
    /\ calls = <<>>
    /\ result = "ok"
    /\ errmsg = Nil
    /\ idAtStart = <<>>
    /\ attrsAtStart = ZeroAttrs(res)
    /\ drift = NoDrift

\* identities of the entities created out of band
SeedConnIds == {EncodeId(SeedConn.ProjectID, Deref(SeedConn.ID))}
SeedJobIds == {Itoa(Deref(SeedJob.ID))}

Next ==
    \/ Import("job", SeedJobIds)
    \/ JobCreate(JobConfigs, {105})
    \/ JobCreateRead
    \/ JobRead
    \/ JobUpdateFetch(ChangedSets(JobUpdatableAttrs, MaxChanged))
    \/ JobUpdateWrite
    \/ JobUpdateRead
    \/ JobDeleteFetch
    \/ JobDeleteWrite
    \/ Import("connection", SeedConnIds)
    \/ ConnCreate(ConnConfigs, {7})
    \/ ConnCreateRead
    \/ ConnRead
    \/ ConnUpdateFetch(ChangedSets(ConnConfigAttrs, MaxChanged))
    \/ ConnUpdateWrite
    \/ ConnUpdateRead
    \/ ConnDelete
    \/ ConnCheckDestroy
    \/ JobImportStateVerify
    \/ ConnImportStateVerify

Spec == Init /\ [][Next]_vars

(***************************************************************************)
(* The identity specification: connection handlers over a range of IDs     *)
(* and over imported identity strings, well formed or not.                 *)
(***************************************************************************)
IdRange == (-MaxId)..MaxId

IdConfigs == {[SnowflakeConfig EXCEPT !.project_id = p] : p \in IdRange}

ImportIds ==
    {<<"7">>, <<"4", "2", ":", "7">>, <<"4", "2", ":", "7", ":", "9">>,
     <<"4", "2", ":", "a", "b", "c">>, <<"4", "2", ":">>, <<":", "7">>,
     <<"4", "2", "7">>}

InitId == Init /\ res = "connection"

NextId ==
    \/ Import("connection", ImportIds)
    \/ Restore("connection", ImportIds, ConnReadAttrs(ConnZeroAttrs, SeedConn))
    \/ ConnCreate(IdConfigs, IdRange)
    \/ ConnCreateRead
    \/ ConnRead
    \/ ConnUpdateFetch({{}, {"name"}})
    \/ ConnUpdateWrite
    \/ ConnUpdateRead
    \/ ConnDelete

SpecId == InitId /\ [][NextId]_vars


(***************************************************************************)
(* Properties of the composite identity.                                   *)
(***************************************************************************)
DigitValue(ch) == CHOOSE d \in 0..9 : DigitChars[d + 1] = ch
IsDigit(ch) == \E d \in 0..9 : DigitChars[d + 1] = ch

RECURSIVE DigitsValue(_, _)
DigitsValue(s, acc) ==
    IF s = <<>> THEN acc
    ELSE DigitsValue(Tail(s), (acc * 10) + DigitValue(Head(s)))

\* strconv.Atoi: an optional sign, then one or more digits; nil otherwise
ParseInt(s) ==
    LET signed == s # <<>> /\ Head(s) \in {"-", "+"}
        digits == IF signed THEN Tail(s) ELSE s
    IN  IF digits = <<>> \/ \E i \in 1..Len(digits) : ~IsDigit(digits[i])
        THEN Nil
        ELSE IF signed /\ Head(s) = "-" THEN Ptr(-DigitsValue(digits, 0))
        ELSE Ptr(DigitsValue(digits, 0))

HasDelimiter(id) == \E i \in 1..Len(id) : id[i] = ID_DELIMITER

\* the two halves around the FIRST delimiter of an identity that has one
FirstDelimiter(id) == CHOOSE i \in 1..Len(id) :
    id[i] = ID_DELIMITER /\ \A j \in 1..(i - 1) : id[j] # ID_DELIMITER
FirstHalf(id) == SubSeq(id, 1, FirstDelimiter(id) - 1)
SecondHalf(id) == SubSeq(id, FirstDelimiter(id) + 1, Len(id))

\* the calls that address one connection by (connectionID, projectID)
ConnAddressed == {"GetConnection", "UpdateConnection", "DeleteConnection"}

HandlerReturned(names) == pc = "idle" /\ op \in names

\* C1: whenever the record's identity is the encoding of a pair (p, e) of
\* integer IDs, every call that connection Read, Update and Delete (and the
\* read-back of Create) address to the remote client carries strings that
\* parse back to exactly p as the project and e as the connection.
C1_IdentityRoundTrip ==
    \A p \in IdRange, e \in IdRange :
        recId = EncodeId(p, e) =>
            \A i \in 1..Len(calls) :
                calls[i].fn \in ConnAddressed =>
                    /\ ParseInt(calls[i].scope) = Ptr(p)
                    /\ ParseInt(calls[i].id) = Ptr(e)

\* C1 witness: an Update that followed a Create has fetched, written and
\* read back the connection with a negative two-digit project ID, and a
\* Delete has addressed a connection with a negative ID
C1_Witness ==
    \/ /\ HandlerReturned({"Update"})
       /\ Len(calls) = 3
       /\ recId = EncodeId(-10, 7)
       /\ remoteConn # Nil /\ Deref(remoteConn).ProjectID = -10
    \/ /\ HandlerReturned({"Delete"})
       /\ Len(calls) = 1 /\ result = "ok"
       /\ recId = EncodeId(10, -3)

\* C2 (as claimed): with an identity that holds no delimiter, connection
\* Read, Update and Delete return an error diagnostic and issue no remote
\* call.
C2_NoDelimiterIsAnError ==
    (HandlerReturned({"Read", "Update", "Delete"}) /\ ~HasDelimiter(idAtStart))
        => (result = "error" /\ calls = <<>>)

\* C3 (as claimed): an identity whose halves around the first delimiter
\* are not both integers is rejected by connection Read, Update and Delete
\* with an error diagnostic, before any remote call.
C3_NonIntegerHalfIsRejected ==
    (/\ HandlerReturned({"Read", "Update", "Delete"})
     /\ HasDelimiter(idAtStart)
     /\ \/ IsNil(ParseInt(FirstHalf(idAtStart)))
        \/ IsNil(ParseInt(SecondHalf(idAtStart))))
        => (result = "error" /\ calls = <<>>)


(***************************************************************************)
(* The drift specification: Create, then one Update, with another writer   *)
(* of the remote entity.                                                   *)
(***************************************************************************)
NextDrift ==
    \/ JobCreate({BasicJobConfig, DaysJobConfig}, {105})
    \/ JobCreateRead
    \/ JobUpdateFetch(ChangedSets(JobUpdatableAttrs, MaxChangedDrift))
    \/ JobUpdateWrite
    \/ JobUpdateRead
    \/ ConnCreate({SnowflakeConfig, RedshiftConfig}, {7})
    \/ ConnCreateRead
    \/ ConnUpdateFetch(ChangedSets(ConnConfigAttrs, MaxChangedDrift))
    \/ ConnUpdateWrite
    \/ ConnUpdateRead
    \/ OtherWriter

SpecDrift == Init /\ [][NextDrift]_vars


(***************************************************************************)
(* Properties of Update, Read and Delete.                                  *)
(***************************************************************************)
UpdateFns == {"UpdateJob", "UpdateConnection"}
GetFns == {"GetJob", "GetConnection"}

CallsOf(fns) == SelectSeq(calls, LAMBDA c : c.fn \in fns)

\* the running or last handler is an Update whose fetch succeeded and
\* whose merge and write step has run
UpdateWrote ==
    /\ op = "Update"
    /\ Len(calls) >= 1
    /\ calls[1].fn \in GetFns /\ IsNil(calls[1].err)
    /\ pc # "update_write"

NameField == "Name"

\* C4: when name is the only attribute reported changed, job Update and
\* connection Update never issue more than one whole-entity update call,
\* issue exactly one once the entity was fetched, and every field of its
\* payload other than the name equals the field of the entity fetched by
\* the first call of the same invocation; the name is the planned one.
C4_NameOnlyUpdate ==
    (op = "Update" /\ changed = {"name"}) =>
        /\ Len(CallsOf(UpdateFns)) <= 1
        /\ UpdateWrote =>
            /\ Len(CallsOf(UpdateFns)) = 1
            /\ calls[2].fn \in UpdateFns
            /\ LET payload == Deref(calls[2].payload)
                   fetched == Deref(calls[1].got)
               IN  /\ DOMAIN payload = DOMAIN fetched
                   /\ \A f \in DOMAIN fetched \ {NameField} :
                          payload[f] = fetched[f]
                   /\ payload.Name = attrsAtStart.name

\* C4 witness: a job Update that reported only name has fetched, written
\* and read back, and the name it sent differs from the one it fetched
C4_Witness ==
    /\ res = "job" /\ HandlerReturned({"Update"}) /\ changed = {"name"}
    /\ result = "ok" /\ Len(calls) = 3
    /\ Deref(calls[2].payload).Name # Deref(calls[1].got).Name

\* C5 (as claimed): after a job Update that returned without error, for
\* every attribute reported changed an update call was issued whose
\* payload, read back as resourceJobRead reads an entity, carries the
\* planned value of that attribute.
C5_JobUpdateCarriesEveryChange ==
    (res = "job" /\ HandlerReturned({"Update"}) /\ result = "ok"
        /\ changed # {}) =>
        \E i \in 1..Len(calls) :
            /\ calls[i].fn = "UpdateJob"
            /\ \A k \in changed :
                JobReadAttrs(attrsAtStart, Deref(calls[i].payload),
                             idAtStart)[k] = attrsAtStart[k]

\* C6 (as claimed): after a connection Update that returned without
\* error, for every attribute reported changed an update call was issued
\* whose payload, read back as resourceConnectionRead reads an entity,
\* carries the planned value of that attribute.
C6_ConnUpdateCarriesEveryChange ==
    (res = "connection" /\ HandlerReturned({"Update"}) /\ result = "ok"
        /\ changed # {}) =>
        \E i \in 1..Len(calls) :
            /\ calls[i].fn = "UpdateConnection"
            /\ \A k \in changed :
                ConnReadAttrs(attrsAtStart, Deref(calls[i].payload))[k]
                    = attrsAtStart[k]

\* the entity fields that the merge of Update may assign when attribute k
\* is reported changed
FieldsOf(k) ==
    CASE k = "project_id" -> {"Project_Id"}
      [] k = "environment_id" -> {"Environment_Id"}
      [] k = "name" -> {"Name"}
      [] k = "description" -> {"Description"}
      [] k = "execute_steps" -> {"Execute_Steps"}
      [] k = "dbt_version" -> {"Dbt_Version"}
      [] k = "is_active" -> {"State"}
      [] k = "triggers" -> {"Triggers"}
      [] k = "num_threads" -> {"Threads"}
      [] k = "target_name" -> {"Target_Name"}
      [] k = "generate_docs" -> {"Generate_Docs"}
      [] k = "run_generate_sources" -> {"Run_Generate_Sources"}
      [] k = "schedule_type" -> {"Date_Type", "Date_Cron", "Date_Days"}
      [] k = "schedule_interval" -> {"Time_Interval"}
      [] k = "schedule_hours" -> {"Time_Hours", "Time_Type", "Time_Interval"}
      [] k = "schedule_days" -> {"Date_Days"}
      [] k = "schedule_cron" -> {"Date_Cron"}
      [] k = "deferring_job_id" -> {"Deferring_Job_Id"}
      [] k = "deferring_environment_id" -> {"DeferringEnvironmentId"}
      [] k = "self_deferring" -> {"Deferring_Job_Id"}
      [] k = "timeout_seconds" -> {"Timeout_Seconds"}
      [] k = "triggers_on_draft_pr" -> {"TriggersOnDraftPR"}
      [] k = "job_completion_trigger_condition" -> {"JobCompletionTrigger"}
      [] k = "type" -> {"Type"}
      [] k = "account" -> {"Account"}
      [] k = "database" -> {"Database", "DBName"}
      [] k = "warehouse" -> {"Warehouse"}
      [] k = "role" -> {"Role"}
      [] k = "allow_sso" -> {"AllowSSO"}
      [] k = "allow_keep_alive" -> {"ClientSessionKeepAlive"}
      [] k = "oauth_client_id" -> {"OAuthClientID"}
      [] k = "oauth_client_secret" -> {"OAuthClientSecret"}
      [] k = "host_name" -> {"Host", "AdapterDetails"}
      [] k = "port" -> {"Port"}
      [] k = "tunnel_enabled" -> {"TunnelEnabled"}
      [] k \in {"http_path", "catalog"} -> {"AdapterDetails"}

ChangedFields == UNION {FieldsOf(k) : k \in changed}

Remote == IF res = "job" THEN remoteJob ELSE remoteConn

\* the whole-entity write of the running or last Update was applied
WriteApplied ==
    /\ op = "Update"
    /\ \E i \in 1..Len(calls) : calls[i].fn \in UpdateFns /\ IsNil(calls[i].err)

\* C7 (as claimed): once the write of Update is applied, a field that the
\* reported changes do not touch still holds the value another writer
\* gave it at any point before that write, also between Update's fetch
\* and its write.
C7_DriftSurvivesUntilWrite ==
    (/\ WriteApplied
     /\ drift.stage \in {"before_fetch", "before_write"}
     /\ drift.field \notin ChangedFields)
        => Deref(Remote)[drift.field] = drift.value

\* C7 (amended): once the write of Update is applied, a field that the
\* reported changes do not touch still holds the value another writer
\* gave it before Update fetched the entity.
C7_DriftBeforeFetchSurvives ==
    (/\ WriteApplied
     /\ drift.stage = "before_fetch"
     /\ drift.field \notin ChangedFields)
        => Deref(Remote)[drift.field] = drift.value

\* C7 witness: another writer changed the description of the job before
\* an Update that reports only name fetched it, and the write is applied
C7_Witness ==
    /\ res = "job" /\ WriteApplied /\ changed = {"name"}
    /\ drift.stage = "before_fetch" /\ drift.field = "Description"
    /\ Deref(remoteJob).Description = "drifted"
    /\ Deref(remoteJob).Name = attrsAtStart.name

\* the job Read handler returned after a fetch that failed
JobReadFailed ==
    /\ res = "job" /\ HandlerReturned({"Read"})
    /\ Len(calls) = 1 /\ calls[1].fn = "GetJob" /\ ~IsNil(calls[1].err)

\* C8: when the fetch of job Read fails with the client's not-found error,
\* Read leaves the identity empty, returns no error diagnostic and leaves
\* every attribute as it was; when the fetch fails in any other way, Read
\* returns an error diagnostic and leaves the identity as it was.
C8_JobReadNotFound ==
    JobReadFailed =>
        IF calls[1].err = Ptr(ErrNotFound)
        THEN recId = <<>> /\ result = "ok" /\ attrs = attrsAtStart
        ELSE result = "error" /\ recId = idAtStart /\ idAtStart # <<>>

\* C8 witness: a job Read of a record with an identity found no remote job
C8_Witness ==
    /\ JobReadFailed /\ calls[1].err = Ptr(ErrNotFound)
    /\ idAtStart # <<>> /\ recId = <<>>

\* C9 (as claimed): when the fetch of connection Read fails with the
\* client's not-found error, Read leaves the identity empty and returns
\* no error diagnostic.
C9_ConnReadNotFoundClearsId ==
    (/\ res = "connection" /\ HandlerReturned({"Read"})
     /\ Len(calls) = 1 /\ calls[1].err = Ptr(ErrNotFound))
        => (recId = <<>> /\ result = "ok")

\* C10: job Delete issues GetJob first and nothing but GetJob and UpdateJob;
\* once the job was fetched it issues exactly one UpdateJob, whose payload
\* has the state of a deleted job and equals the fetched entity in every
\* other field.
C10_JobDeleteIsAStateUpdate ==
    (res = "job" /\ op = "Delete") =>
        /\ Len(calls) >= 1 /\ calls[1].fn = "GetJob"
        /\ \A i \in 1..Len(calls) : calls[i].fn \in {"GetJob", "UpdateJob"}
        /\ Len(CallsOf(UpdateFns)) <= 1
        /\ (pc = "idle" /\ IsNil(calls[1].err)) =>
            /\ Len(calls) = 2 /\ calls[2].fn = "UpdateJob"
            /\ LET payload == Deref(calls[2].payload)
                   fetched == Deref(calls[1].got)
               IN  /\ payload.State = STATE_DELETED
                   /\ DOMAIN payload = DOMAIN fetched
                   /\ \A f \in DOMAIN fetched \ {"State"} :
                          payload[f] = fetched[f]

\* C10 witness: a job Delete fetched an active job and wrote it back with
\* the deleted state
C10_Witness ==
    /\ res = "job" /\ HandlerReturned({"Delete"}) /\ result = "ok"
    /\ Len(calls) = 2
    /\ Deref(calls[1].got).State = STATE_ACTIVE
    /\ Deref(remoteJob).State = STATE_DELETED


(***************************************************************************)
(* Properties of Delete, of the schedule merge, of import and of failures. *)
(***************************************************************************)
\* C11 (as claimed): a connection Delete that returned without error has
\* issued an update call whose payload has the state of a deleted entity,
\* and no physical delete call.
C11_ConnDeleteIsAStateUpdate ==
    (res = "connection" /\ HandlerReturned({"Delete"}) /\ result = "ok") =>
        /\ \E i \in 1..Len(calls) :
              /\ calls[i].fn = "UpdateConnection"
              /\ ~IsNil(calls[i].payload)
              /\ Deref(calls[i].payload).State = STATE_DELETED
        /\ \A i \in 1..Len(calls) : calls[i].fn # "DeleteConnection"

\* C11 (amended): connection Delete issues no remote call other than the
\* client's delete call, addressed by the two halves of the identity, never
\* more than one, and exactly one when it returns a diagnostic; it never
\* fetches the connection and never issues an update call.
C11_ConnDeleteIsPhysical ==
    (res = "connection" /\ op = "Delete") =>
        /\ Len(calls) <= 1
        /\ \A i \in 1..Len(calls) :
              /\ calls[i].fn = "DeleteConnection"
              /\ calls[i].id = ConnectionIdString(idAtStart)
              /\ calls[i].scope = ProjectIdString(idAtStart)
              /\ IsNil(calls[i].payload)
        /\ (pc = "idle" /\ result \in {"ok", "error"}) => Len(calls) = 1

\* C11 witness: a connection Delete returned without error after its one
\* delete call, and the remote connection is gone
C11_Witness ==
    /\ res = "connection" /\ HandlerReturned({"Delete"}) /\ result = "ok"
    /\ Len(calls) = 1 /\ calls[1].fn = "DeleteConnection"
    /\ IsNil(remoteConn)


HourlyCron == "0 * * * *"

\* the update calls of the running or last job Update
JobUpdateCalls == {i \in 1..Len(calls) : op = "Update" /\ calls[i].fn = "UpdateJob"}

\* C13 (as claimed): when a job whose remote schedule type is every_day is
\* updated to schedule_type custom_cron with schedule_cron "0 * * * *", the
\* payload of the update call has that cron, and has no days, no hours and
\* an interval of zero.
C13_CronUpdateClearsTheRest ==
    (/\ res = "job" /\ op = "Update"
     /\ changed = {"schedule_type", "schedule_cron"}
     /\ attrsAtStart.schedule_type = "custom_cron"
     /\ attrsAtStart.schedule_cron = HourlyCron
     /\ Len(calls) >= 1 /\ ~IsNil(calls[1].got)
     /\ Deref(calls[1].got).Date_Type = "every_day") =>
        \A i \in JobUpdateCalls :
            LET payload == Deref(calls[i].payload)
            IN  /\ payload.Date_Cron = Ptr(HourlyCron)
                /\ IsNil(payload.Date_Days)
                /\ IsNil(payload.Time_Hours)
                /\ payload.Time_Interval = 0


(***************************************************************************)
(* The schedule specification: a job is created, then one Update reports   *)
(* any set of the schedule attributes as changed.                          *)
(***************************************************************************)
ScheduleAttrs ==
    {"schedule_type", "schedule_interval", "schedule_hours", "schedule_days",
     "schedule_cron"}

InitSchedule == Init /\ res = "job"

NextSchedule ==
    \/ JobCreate(JobConfigs, {105})
    \/ JobCreateRead
    \/ JobUpdateFetch(SUBSET ScheduleAttrs)
    \/ JobUpdateWrite
    \/ JobUpdateRead

SpecSchedule == InitSchedule /\ [][NextSchedule]_vars

\* C14: in every job Update that reports schedule_type changed, whichever
\* of the schedule sub-fields are reported changed with it, the payload of
\* the update call carries the planned type, has no cron when that type is
\* days_of_week or every_day, and has no days when it is custom_cron or
\* every_day.
C14_TypeNullsAfterSubFields ==
    (res = "job" /\ "schedule_type" \in changed) =>
        \A i \in JobUpdateCalls :
            LET payload == Deref(calls[i].payload)
                final == attrsAtStart.schedule_type
            IN  /\ payload.Date_Type = final
                /\ final \in {"days_of_week", "every_day"} =>
                       IsNil(payload.Date_Cron)
                /\ final \in {"custom_cron", "every_day"} =>
                       IsNil(payload.Date_Days)

\* C14 witness: an Update reported the type together with a cron and days
\* that are not empty, the final type is every_day, and the update call
\* was issued
C14_Witness ==
    /\ res = "job" /\ HandlerReturned({"Update"}) /\ result = "ok"
    /\ {"schedule_type", "schedule_cron", "schedule_days"} \subseteq changed
    /\ attrsAtStart.schedule_type = "every_day"
    /\ attrsAtStart.schedule_cron # ""
    /\ attrsAtStart.schedule_days # <<>>
    /\ JobUpdateCalls # {}


\* the attributes as the fields of a remote connection c give them
ConnEntityAttrs(c) ==
    [ConnReadAttrs(ConnZeroAttrs, c) EXCEPT
        !.oauth_client_id = c.OAuthClientID,
        !.oauth_client_secret = c.OAuthClientSecret]

ImportedId == <<"4", "2", ":", "7">>

\* a connection Read of a record that holds the imported identity "42:7"
\* and no attribute yet has returned without error
ImportedConnRead ==
    /\ res = "connection" /\ HandlerReturned({"Read"}) /\ result = "ok"
    /\ idAtStart = ImportedId /\ attrsAtStart = ConnZeroAttrs

\* C15 (as claimed): the Read that follows the import of "42:7" fetches
\* connection 7 of project 42 and leaves every schema attribute with the
\* value the fetched remote entity holds for it.
C15_ImportReadsEveryAttribute ==
    ImportedConnRead =>
        /\ Len(calls) = 1 /\ calls[1].fn = "GetConnection"
        /\ calls[1].id = <<"7">> /\ calls[1].scope = <<"4", "2">>
        /\ \A k \in ConnAttrs :
              attrs[k] = ConnEntityAttrs(Deref(calls[1].got))[k]


\* C16 (as claimed): the record that import and Read build for a created
\* job or connection holds, for every attribute, the value the record held
\* after Create and its read-back.
C16_ImportStateVerifies ==
    (HandlerReturned({"ImportStateVerify"}) /\ result = "ok") =>
        /\ recId = idAtStart
        /\ attrs = attrsAtStart


\* the create call of Create succeeded and the read-back call is calls[2]
CreateReadBack ==
    /\ HandlerReturned({"Create"})
    /\ Len(calls) = 2 /\ IsNil(calls[1].err)
    /\ calls[1].fn \in {"CreateJob", "CreateConnection"}
    /\ calls[2].fn \in GetFns

\* the read-back failed: its fetch returned an error that Read reports (a
\* not-found is no failure of job Read)
ReadBackFailed ==
    /\ CreateReadBack
    /\ ~IsNil(calls[2].err)
    /\ res = "job" => ~IsNotFound(Deref(calls[2].err))

\* C17 (as claimed): when the create call succeeds and the read-back fails,
\* Create returns an error diagnostic that carries the read-back's error.
C17_ReadBackFailureIsReported ==
    ReadBackFailed => (result = "error" /\ errmsg = calls[2].err)


(***************************************************************************)
(* The removal specification: the handlers of both resources, with another *)
(* client that may remove the remote entity at any point.                  *)
(***************************************************************************)
MaxChangedGone == 1

NextGone ==
    \/ JobCreate(JobConfigs, {105})
    \/ JobCreateRead
    \/ JobRead
    \/ JobUpdateFetch(ChangedSets(JobUpdatableAttrs, MaxChangedGone))
    \/ JobUpdateWrite
    \/ JobUpdateRead
    \/ JobDeleteFetch
    \/ JobDeleteWrite
    \/ ConnCreate(ConnConfigs, {7})
    \/ ConnCreateRead
    \/ ConnRead
    \/ ConnUpdateFetch(ChangedSets(ConnConfigAttrs, MaxChangedGone))
    \/ ConnUpdateWrite
    \/ ConnUpdateRead
    \/ ConnDelete
    \/ OtherRemoval

SpecGone == Init /\ [][NextGone]_vars

\* the create call of Create succeeded
CreateSucceeded ==
    /\ op = "Create" /\ Len(calls) >= 1 /\ IsNil(calls[1].err)
    /\ calls[1].fn \in {"CreateJob", "CreateConnection"}

\* the encoding of the ID the server assigned to the created entity
AssignedId ==
    LET e == Deref(calls[1].got)
    IN  IF res = "job" THEN Itoa(Deref(e.ID))
        ELSE EncodeId(e.ProjectID, Deref(e.ID))

\* the read-back of a job Create found the job absent
JobReadBackNotFound ==
    /\ res = "job" /\ CreateReadBack
    /\ ~IsNil(calls[2].err) /\ IsNotFound(Deref(calls[2].err))

\* C18 (as claimed): once the create call succeeded, the identity Create
\* returns with is the encoding of the server-assigned ID, whether the
\* read-back succeeded, found nothing or failed otherwise.
C18_IdentityKeptWhateverReadBack ==
    (CreateSucceeded /\ HandlerReturned({"Create"})) => recId = AssignedId

\* C18 (amended): the identity is the encoding of the server-assigned ID
\* from the create call on, through the read-back and after Create returns,
\* except that a job read-back that finds the job absent clears it.
C18_IdentityKeptUnlessJobGone ==
    CreateSucceeded =>
        recId = IF JobReadBackNotFound THEN <<>> ELSE AssignedId

C18_Witness ==
    /\ JobReadBackNotFound /\ HandlerReturned({"Create"})
    /\ result = "ok" /\ recId = <<>>


\* the job was absent whenever the invocation looked: it issued a remote
\* call and every call it issued was answered not-found
JobAbsentThroughout ==
    /\ res = "job" /\ Len(calls) >= 1
    /\ \A i \in 1..Len(calls) : calls[i].err = Ptr(ErrNotFound)

\* C19 (as claimed): with the remote job absent, job Update and job Delete
\* return an error diagnostic and leave the identity as it was, whatever
\* attributes are reported changed.
C19_AbsentJobIsAHardError ==
    (/\ HandlerReturned({"Update", "Delete"}) /\ JobAbsentThroughout
     /\ op = "Update" => changed # {}) =>
        (result = "error" /\ recId = idAtStart)


\* the most remote calls one invocation of a handler may issue
MaxCalls ==
    CASE op = "Read" -> 1
      [] op = "Update" -> 3
      [] op = "Delete" -> 2

\* call i of the running invocation is the fetch of job Read, on its own or
\* as the read-back that ends job Update
IsJobReadCall(i) ==
    /\ res = "job" /\ calls[i].fn = "GetJob" /\ i = Len(calls)
    /\ \/ op = "Read"
       \/ op = "Update" /\ (i = 3 \/ changed \cap JobGuardAttrs = {})

\* call i failed, a not-found of job Read left aside
CallFailed(i) ==
    /\ ~IsNil(calls[i].err)
    /\ ~(IsJobReadCall(i) /\ IsNotFound(Deref(calls[i].err)))

\* C20: in every Read, Update and Delete invocation a remote call is issued
\* only after every earlier call of the invocation succeeded; once a call
\* fails (a not-found of job Read left aside) the invocation has ended, with
\* an error diagnostic that carries the call's error; and the invocation
\* issues at most 1 call in Read, 3 in Update and 2 in Delete.
C20_FirstFailureEndsTheInvocation ==
    op \in {"Read", "Update", "Delete"} =>
        /\ Len(calls) <= MaxCalls
        /\ \A i \in 1..Len(calls) :
            /\ i < Len(calls) => IsNil(calls[i].err)
            /\ ~IsNil(calls[i].err) => pc = "idle"
            /\ CallFailed(i) => (result = "error" /\ errmsg = calls[i].err)

C20_Witness ==
    /\ op = "Update" /\ pc = "idle" /\ Len(calls) = 2
    /\ calls[2].fn \in UpdateFns /\ CallFailed(2)
    /\ result = "error"


\* call i is a fetch addressed with the ID the server assigned
FetchOfAssigned(i) ==
    LET e == Deref(calls[1].got)
    IN  /\ calls[i].fn \in GetFns
        /\ IF res = "job"
           THEN calls[i].id = Itoa(Deref(e.ID))
           ELSE /\ calls[i].id = Itoa(Deref(e.ID))
                /\ calls[i].scope = Itoa(e.ProjectID)

\* C21: in a Create whose create call succeeds, the create call is the
\* first and only create call and no fetch precedes it; when the read-back
\* is still to come the identity already is the encoding of the
\* server-assigned ID and no fetch has been issued; and when Create has
\* returned exactly one fetch followed, addressed with that same ID.
C21_CreateThenIdentityThenOneFetch ==
    (op = "Create" /\ Len(calls) >= 1 /\ IsNil(calls[1].err)) =>
        /\ calls[1].fn \in {"CreateJob", "CreateConnection"}
        /\ pc = "create_read" => (Len(calls) = 1 /\ recId = AssignedId)
        /\ pc = "idle" => (Len(calls) = 2 /\ FetchOfAssigned(2))

C21_Witness ==
    /\ CreateSucceeded /\ pc = "idle" /\ res = "connection"
    /\ Len(calls) = 2 /\ FetchOfAssigned(2) /\ recId = AssignedId


\* the invocation returned without error and ended with a fetch that
\* succeeded: a Read, or the Read that ends Create and Update
ReadSucceeded ==
    /\ pc = "idle" /\ result = "ok"
    /\ op \in {"Read", "Create", "Update"}
    /\ Len(calls) >= 1
    /\ calls[Len(calls)].fn \in GetFns
    /\ IsNil(calls[Len(calls)].err)

Fetched == Deref(calls[Len(calls)].got)

\* C22: after a Read that succeeded, is_active is true exactly when the
\* state of the fetched entity is the active code 1, and the identity is the
\* one the Read started with, whatever that state is.
C22_IsActiveIsStateOne ==
    ReadSucceeded =>
        /\ attrs.is_active = (Fetched.State = 1)
        /\ recId = IF op = "Create" THEN AssignedId ELSE idAtStart

C22_Witness ==
    /\ ReadSucceeded /\ res = "job" /\ op = "Update"
    /\ Fetched.State = STATE_DELETED
    /\ attrs.is_active = FALSE /\ recId = idAtStart /\ recId # <<>>


\* call i of the running invocation follows a fetch of the same entity that
\* succeeded
FetchedBefore(i) ==
    \E j \in 1..(i - 1) :
        /\ calls[j].fn \in GetFns
        /\ IsNil(calls[j].err) /\ ~IsNil(calls[j].got)
        /\ calls[j].id = calls[i].id
        /\ calls[j].scope = calls[i].scope

\* C23 (as claimed): every job update, connection update and connection
\* delete call of an Update or Delete invocation follows, within the
\* invocation, a fetch of the same entity that succeeded.
C23_FetchBeforeEveryMutation ==
    op \in {"Update", "Delete"} =>
        \A i \in 1..Len(calls) :
            calls[i].fn \in UpdateFns \cup {"DeleteConnection"}
                => FetchedBefore(i)

\* C23 (amended): every job update and connection update call of an Update
\* or Delete invocation follows, within the invocation, a fetch of the same
\* entity that succeeded; the delete call of connection Delete is the first
\* call of its invocation and follows no fetch.
C23_FetchBeforeEveryUpdateCall ==
    op \in {"Update", "Delete"} =>
        \A i \in 1..Len(calls) :
            /\ calls[i].fn \in UpdateFns => FetchedBefore(i)
            /\ calls[i].fn = "DeleteConnection" => i = 1

C23_Witness ==
    /\ res = "connection" /\ HandlerReturned({"Update"}) /\ result = "ok"
    /\ Len(calls) = 3 /\ calls[2].fn = "UpdateConnection"
    /\ FetchedBefore(2)


\* an Update that reported name changed has fetched, written and read back,
\* every call without error
RenameSucceeded ==
    /\ HandlerReturned({"Update"}) /\ result = "ok"
    /\ "name" \in changed
    /\ Len(calls) = 3
    /\ \A i \in 1..3 : IsNil(calls[i].err)

\* C24: after an Update that reported name changed and whose fetch, write
\* and read-back all succeeded, the remote entity holds the planned name and
\* so does the name attribute of the record.
C24_RenameReachesRemoteAndRecord ==
    RenameSucceeded =>
        /\ ~IsNil(Remote)
        /\ Deref(Remote).Name = attrsAtStart.name
        /\ attrs.name = attrsAtStart.name

C24_Witness ==
    /\ RenameSucceeded /\ res = "connection"
    /\ Deref(calls[1].got).Name # attrsAtStart.name
    /\ Deref(remoteConn).Name = attrsAtStart.name
    /\ attrs.name = attrsAtStart.name


CustomBranchOnly == "custom_branch_only"

\* the trigger flags a job entity carries to and from the remote API
EntityTriggerFields == {"Github_Webhook", "GitProviderWebhook", "Schedule"}

\* C25: after a job Read that succeeded (on its own or ending Create or
\* Update), a triggers map that held custom_branch_only before the Read
\* holds it with the same value afterwards, next to the three flags of the
\* fetched entity; and the triggers of every job update payload consist of
\* those three flags alone, so no custom_branch_only of the configuration is
\* ever sent.
C25_CustomBranchOnlyIsEchoed ==
    res = "job" =>
        /\ (ReadSucceeded /\ CustomBranchOnly \in DOMAIN attrsAtStart.triggers)
             => /\ CustomBranchOnly \in DOMAIN attrs.triggers
                /\ attrs.triggers[CustomBranchOnly] =
                       attrsAtStart.triggers[CustomBranchOnly]
                /\ attrs.triggers.github_webhook =
                       Fetched.Triggers.Github_Webhook
                /\ attrs.triggers.git_provider_webhook =
                       Fetched.Triggers.GitProviderWebhook
                /\ attrs.triggers.schedule = Fetched.Triggers.Schedule
        /\ \A i \in 1..Len(calls) :
              calls[i].fn = "UpdateJob" =>
                  DOMAIN Deref(calls[i].payload).Triggers = EntityTriggerFields

C25_Witness ==
    /\ res = "job" /\ ReadSucceeded /\ op = "Update"
    /\ "triggers" \in changed /\ Len(calls) = 3
    /\ CustomBranchOnly \in DOMAIN attrsAtStart.triggers
    /\ attrs.triggers[CustomBranchOnly] = TRUE
    /\ DOMAIN Deref(calls[2].payload).Triggers = EntityTriggerFields


\* the attributes of each resource that its Update guard does not name
Unguarded ==
    IF res = "job" THEN {"is_active", "triggers_on_draft_pr"}
    ELSE {"connection_id", "is_active", "project_id", "host_name", "port",
          "tunnel_enabled", "http_path", "catalog", "adapter_id"}

\* an Update in which no attribute named in the guard is reported changed
UnguardedUpdate == op = "Update" /\ changed \subseteq Unguarded

\* C26: an Update in which none of the attributes named in the guard is
\* reported changed issues no call but the fetch of the Read that ends it,
\* exactly one once it has returned, and no step of it changes the remote
\* entity.
C26_UnguardedUpdateOnlyReads ==
    /\ [](UnguardedUpdate =>
            /\ Len(calls) <= 1
            /\ \A i \in 1..Len(calls) :
                  calls[i].fn \in GetFns /\ IsNil(calls[i].payload)
            /\ pc = "idle" => Len(calls) = 1)
    /\ [][UnguardedUpdate' =>
            (remoteJob' = remoteJob /\ remoteConn' = remoteConn)]_vars

C26_Witness ==
    /\ res = "connection" /\ HandlerReturned({"Update"}) /\ result = "ok"
    /\ changed = {"host_name"}
    /\ attrsAtStart.host_name # Deref(remoteConn).Host
    /\ Len(calls) = 1 /\ calls[1].fn = "GetConnection"


\* the create call of Create failed
CreateFailed ==
    /\ op = "Create" /\ Len(calls) >= 1
    /\ calls[1].fn \in {"CreateJob", "CreateConnection"}
    /\ ~IsNil(calls[1].err)

\* C27: when the create call of Create fails, Create has returned with an
\* error diagnostic that carries the call's error, the identity of the
\* record is empty, and the create call is the only remote call: no fetch
\* follows.
C27_FailedCreateLeavesNoIdentity ==
    CreateFailed =>
        /\ pc = "idle" /\ result = "error" /\ errmsg = calls[1].err
        /\ recId = <<>>
        /\ Len(calls) = 1

C27_Witness ==
    /\ CreateFailed /\ res = "job" /\ pc = "idle" /\ result = "error"
    /\ recId = <<>> /\ Len(calls) = 1 /\ IsNil(remoteJob)


\* the ID of the job itself, as the fetch of the running Update returned it
OwnId == Deref(Deref(calls[1].got).ID)

\* C28: in a job Update that reports self_deferring changed, the payload's
\* deferring job ID is the job's own ID when the new value is true, also
\* when deferring_job_id is reported changed with it, and is the configured
\* deferring_job_id, or null for 0, when the new value is false; and a Read
\* that fetched an entity whose deferring job ID is its own ID sets
\* self_deferring to true and leaves deferring_job_id as the record held it.
C28_SelfDeferringWins ==
    res = "job" =>
        /\ (op = "Update" /\ "self_deferring" \in changed) =>
              \A i \in JobUpdateCalls :
                  Deref(calls[i].payload).Deferring_Job_Id =
                      IF attrsAtStart.self_deferring THEN Ptr(OwnId)
                      ELSE IF attrsAtStart.deferring_job_id = 0 THEN Nil
                      ELSE Ptr(attrsAtStart.deferring_job_id)
        /\ (ReadSucceeded /\ Fetched.Deferring_Job_Id = Fetched.ID) =>
              /\ attrs.self_deferring = TRUE
              /\ attrs.deferring_job_id = attrsAtStart.deferring_job_id

C28_Witness ==
    /\ res = "job" /\ ReadSucceeded /\ op = "Update"
    /\ changed = {"self_deferring", "deferring_job_id"}
    /\ attrsAtStart.self_deferring = TRUE
    /\ attrsAtStart.deferring_job_id \notin {0, OwnId}
    /\ Len(calls) = 3
    /\ Deref(calls[2].payload).Deferring_Job_Id = Ptr(OwnId)
    /\ attrs.self_deferring = TRUE
    /\ attrs.deferring_job_id = attrsAtStart.deferring_job_id


\* C29: in every job Update that reports schedule_hours changed, a new list
\* that is not empty gives the payload that list as hours, the time type
\* "at_exact_hours" and interval 0, whatever schedule_interval change the
\* same Update reports; an empty new list gives hours null, the time type
\* "every_hour" and the configured schedule_interval; so no payload holds
\* both an hours list and a positive interval.
C29_HoursExcludeInterval ==
    (res = "job" /\ "schedule_hours" \in changed) =>
        \A i \in JobUpdateCalls :
            LET payload == Deref(calls[i].payload)
                hours == attrsAtStart.schedule_hours
            IN  /\ hours # <<>> =>
                    /\ payload.Time_Hours = Ptr(hours)
                    /\ payload.Time_Type = "at_exact_hours"
                    /\ payload.Time_Interval = 0
                /\ hours = <<>> =>
                    /\ IsNil(payload.Time_Hours)
                    /\ payload.Time_Type = "every_hour"
                    /\ payload.Time_Interval = attrsAtStart.schedule_interval
                /\ ~(~IsNil(payload.Time_Hours) /\ payload.Time_Interval > 0)

C29_Witness ==
    /\ res = "job" /\ HandlerReturned({"Update"}) /\ result = "ok"
    /\ {"schedule_hours", "schedule_interval"} \subseteq changed
    /\ attrsAtStart.schedule_hours # <<>>
    /\ attrsAtStart.schedule_interval > 1
    /\ JobUpdateCalls # {}
    /\ Deref(calls[2].payload).Time_Interval = 0


RequiredTriggers == {"github_webhook", "git_provider_webhook", "schedule"}

\* a job Update that reports triggers changed to a map that lacks a bool
\* for one of the three flags
BadTriggersUpdate ==
    /\ res = "job" /\ op = "Update" /\ "triggers" \in changed
    /\ \E k \in RequiredTriggers : k \notin DOMAIN attrsAtStart.triggers

\* C30: a job Update that reports triggers changed to a map without a bool
\* for github_webhook, git_provider_webhook or schedule issues no call but
\* its fetch, so no update call and no read-back, returns an error
\* diagnostic, and leaves the identity and the remote entity as they were.
C30_BadTriggersEndUpdate ==
    BadTriggersUpdate =>
        /\ Len(calls) <= 1
        /\ \A i \in 1..Len(calls) : calls[i].fn = "GetJob"
        /\ pc # "update_read"
        /\ recId = idAtStart
        /\ (Len(calls) = 1 /\ IsNil(calls[1].err)) => remoteJob = calls[1].got
        /\ pc = "idle" => (result = "error" /\ ~IsNil(errmsg))

C30_Witness ==
    /\ BadTriggersUpdate /\ pc = "idle" /\ result = "error"
    /\ Len(calls) = 1 /\ IsNil(calls[1].err)
    /\ errmsg = Ptr(<<"schedule", "was not provided">>)
    /\ remoteJob = calls[1].got /\ recId = idAtStart

====
